---- MODULE Spec2Model ----
(***************************************************************************)
(* libmount mount-table monitor (monitor.c, monitor.h): the aggregator     *)
(* struct libmnt_monitor, its list of struct monitor_entry, the epoll      *)
(* instance it multiplexes the entries through, and the consumer calls.    *)
(* The kernel side (descriptor table, epoll interest list and ready list,  *)
(* per-descriptor notification queues) is modelled as far as the calls     *)
(* made by monitor.c observe it.                                           *)
(* Two programs of the same repository follow the monitor: do_landlock of  *)
(* setpriv (setpriv-landlock.c) and the A_RESET and A_CREATE branches of   *)
(* zramctl's main (zramctl.c), each with a variable of its own.            *)
(***************************************************************************)
EXTENDS Integers, Sequences, FiniteSets, TLC

\* ---------------------------------------------------------------- bounds
\* longest notification queue of one descriptor the environment builds up
MaxPending == 1
\* largest number of mnt_ref_monitor() calls
MaxRef == 1
\* largest number of entries the caller creates on the monitor
MaxEnts == 2

\* ------------------------------------------------------- errno constants
EINVAL == 22
ENOTSUP == 95
EBADF == 9
ENOENT == 2
EEXIST == 17
EMFILE == 24
ENOSPC == 28
EINTR == 4
EIO == 5

\* ------------------------------------------------------------ vocabulary
\* MNT_MONITOR_TYPE_*: one entry per type (id -1), as create_test_monitor()
Types == {"kernel", "userspace", "fanotify"}
NULL == "NULL"
Ptrs == Types \cup {NULL}

\* descriptor numbers of the process; -1 is the "unset" value
Fds == 0..4
NoFd == 0 - 1

VARIABLES
    mn,         \* struct libmnt_monitor: refcount, fd, last
    ents,       \* mn->ents: the list of struct monitor_entry, in list order
    freed,      \* free(mn) has run
    pc,         \* position of the caller: "idle", "wait" (blocked in
                \* epoll_wait), "hung" (in a loop that never ends)
    fdtab,      \* kernel: descriptor number -> object open there
    interest,   \* kernel: interest list of the epoll instance
    rdl,        \* kernel: ready list of the epoll instance (descriptors)
    pending,    \* kernel: unread notifications of each entry's object
    call,       \* the last library call and what it returned
    setpriv,    \* setpriv: struct setpriv_landlock_opts, the position of
                \* the program in do_landlock and the system calls it made
    zramctl,    \* zramctl: the command line, struct zram of the device in
                \* work, the position in main and the steps taken so far
    hist        \* bookkeeping read by no call: descriptors closed twice,
                \* op_free_data calls, retains and releases, and the
                \* active entries in the order their events were accepted,
                \* the entries a consumer loop owes a report for

vars ==
    <<mn, ents, freed, pc, fdtab, interest, rdl, pending, call, hist, setpriv,
      zramctl>>

\* the state of the programs that do not use the monitor
utils == <<setpriv, zramctl>>

\* ------------------------------------------------- the state as a record
\* The functions of monitor.c call one another; each is an operator from
\* a state record to a state record, rc being the function's return value.
Cur ==
    [mn |-> mn, ents |-> ents, freed |-> freed, pc |-> pc, fdtab |-> fdtab,
     interest |-> interest, rdl |-> rdl, pending |-> pending, hist |-> hist,
     rc |-> 0, ev |-> NULL]

\* index of the entry a pointer refers to, 0 when it is not in the list
EntIdx(S, ptr) ==
    IF \E i \in 1..Len(S.ents) : S.ents[i].type = ptr
    THEN CHOOSE i \in 1..Len(S.ents) : S.ents[i].type = ptr
    ELSE 0

Ent(S, ptr) == S.ents[EntIdx(S, ptr)]

SetEnt(S, ptr, e) == [S EXCEPT !.ents[EntIdx(S, ptr)] = e]

RetS(S, r) == [S EXCEPT !.rc = r]

\* bookkeeping of the order in which entries became active
Accepted(S, ptr) ==
    IF \E k \in 1..Len(S.hist.acc) : S.hist.acc[k] = ptr THEN S
    ELSE [S EXCEPT !.hist.acc = Append(@, ptr)]

Unaccepted(S, ptr) ==
    [S EXCEPT !.hist.acc = SelectSeq(@, LAMBDA x : x # ptr)]

\* --------------------------------------------------------------- kernel
\* the descriptor open(2) and friends hand out for a new object: the
\* lowest free one, which is 0 when the caller's descriptor 0 is closed
\* and the object's own number otherwise
CanonFd(obj) ==
    CASE obj = "epoll" -> 1
      [] obj = "kernel" -> 2
      [] obj = "userspace" -> 3
      [] obj = "fanotify" -> 4

AllocFd(S, obj) ==
    IF S.fdtab[0] = "closed" THEN 0 ELSE CanonFd(obj)

RemoveFd(q, fd) == SelectSeq(q, LAMBDA x : x # fd)

\* close(2): closing an entry's descriptor takes it off the interest list;
\* closing the epoll descriptor destroys the epoll instance
OsClose(S, fd) ==
    IF fd \notin Fds \/ S.fdtab[fd] = "closed"
    THEN [S EXCEPT !.hist.badclose = TRUE]
    ELSE LET obj == S.fdtab[fd] IN
         IF obj = "epoll"
         THEN [S EXCEPT !.fdtab[fd] = "closed", !.interest = {}, !.rdl = <<>>]
         ELSE [S EXCEPT !.fdtab[fd] = "closed",
                        !.interest = {r \in S.interest : r.fd # fd},
                        !.rdl = RemoveFd(S.rdl, fd),
                        !.pending[obj] = <<>>]

\* does poll() of the object report something for an EPOLLIN watch?
\* /proc/self/mountinfo is always readable; an inotify or fanotify
\* descriptor is readable while its queue holds unread records; the
\* standard input of the process is at its end and reads as such
PollReady(S, fd) ==
    LET obj == S.fdtab[fd] IN
    CASE obj = "kernel" -> TRUE
      [] obj \in {"userspace", "fanotify"} -> S.pending[obj] # <<>>
      [] obj = "stdin" -> TRUE
      [] OTHER -> FALSE

Registered(S, fd) == \E r \in S.interest : r.fd = fd

Item(S, fd) == CHOOSE r \in S.interest : r.fd = fd

\* epoll_ctl(EPOLL_CTL_ADD): errno, 0 on success
EpollCtlAdd(S, fd, events, ptr, fail) ==
    IF fd \notin Fds \/ S.fdtab[fd] = "closed" THEN RetS(S, EBADF)
    ELSE IF Registered(S, fd) THEN RetS(S, EEXIST)
    ELSE IF fail THEN RetS(S, ENOSPC)
    ELSE LET S1 == [S EXCEPT !.interest = @ \cup
                        {[fd |-> fd, events |-> events, ptr |-> ptr]}]
         IN RetS(IF PollReady(S1, fd)
                 THEN [S1 EXCEPT !.rdl = Append(@, fd)] ELSE S1, 0)

\* epoll_ctl(EPOLL_CTL_DEL): errno, 0 on success
EpollCtlDel(S, fd) ==
    IF fd \notin Fds \/ S.fdtab[fd] = "closed" THEN RetS(S, EBADF)
    ELSE IF S.fdtab[fd] = "epoll" THEN RetS(S, EINVAL)
    ELSE IF ~Registered(S, fd) THEN RetS(S, ENOENT)
    ELSE RetS([S EXCEPT !.interest = {r \in S.interest : r.fd # fd},
                        !.rdl = RemoveFd(S.rdl, fd)], 0)

\* epoll_wait(mn->fd, events, 1, 0): the head of the ready list is polled
\* again; an item that reports nothing is dropped, a level-triggered item
\* that reports goes back to the tail, an edge-triggered one does not.
\* Polling /proc/self/mountinfo uses up its "changed" mark.
\* rc is the number of events (0 or 1), ev the data.ptr of the event.
RECURSIVE EpollWait(_)
EpollWait(S) ==
    IF S.rdl = <<>> THEN [RetS(S, 0) EXCEPT !.ev = NULL]
    ELSE LET fd == Head(S.rdl)
             it == Item(S, fd)
             S1 == [S EXCEPT !.rdl = Tail(@)]
         IN IF ~PollReady(S, fd) THEN EpollWait(S1)
            ELSE LET S2 == IF "EPOLLET" \in it.events THEN S1
                           ELSE [S1 EXCEPT !.rdl = Append(@, fd)]
                     S3 == IF S.fdtab[fd] = "kernel"
                           THEN [S2 EXCEPT !.pending["kernel"] = <<>>]
                           ELSE S2
                 IN [RetS(S3, 1) EXCEPT !.ev = it.ptr]

\* ------------------------------------------ backend drivers (the opers)
\* One operation table per type; only the fanotify table has op_next_fs.
OpersOf(type) ==
    CASE type = "kernel" -> "kernel_opers"
      [] type = "userspace" -> "userspace_opers"
      [] type = "fanotify" -> "fanotify_opers"

HasNextFs(opers) == opers = "fanotify_opers"

PathOf(type) ==
    CASE type = "kernel" -> "/proc/self/mountinfo"
      [] type = "userspace" -> "/run/mount/utab"
      [] type = "fanotify" -> "/"

\* wanted epoll events: the polled table is watched edge-triggered
EventsOf(type) ==
    IF type = "kernel" THEN {"EPOLLIN", "EPOLLET"} ELSE {"EPOLLIN"}

\* op_get_fd: the entry's descriptor, opened on first use; rc is the
\* descriptor or -errno
op_get_fd(S, ptr, fail) ==
    LET me == Ent(S, ptr) IN
    IF me.fd >= 0 THEN RetS(S, me.fd)
    ELSE IF fail THEN RetS(S, 0 - EMFILE)
    ELSE LET fd == AllocFd(S, ptr)
             S1 == [S EXCEPT !.fdtab[fd] = ptr, !.pending[ptr] = <<>>]
         IN RetS(SetEnt(S1, ptr, [me EXCEPT !.fd = fd]), fd)

\* op_close_fd: releases the entry's descriptor and unsets it
op_close_fd(S, ptr) ==
    LET me == Ent(S, ptr) IN
    IF me.fd >= 0
    THEN RetS(SetEnt(OsClose(S, me.fd), ptr, [me EXCEPT !.fd = NoFd]), 0)
    ELSE RetS(S, 0)

\* op_free_data: releases the private data block
op_free_data(S, ptr) ==
    LET me == Ent(S, ptr)
        S1 == SetEnt(S, ptr, [me EXCEPT !.data = <<>>])
    IN RetS([S1 EXCEPT !.hist.freedata[ptr] = @ + 1], 0)

\* op_process_event: reads the descriptor's queue empty; rc 0 accept,
\* 1 ignore, <0 error.  The two tables accept every readiness; fanotify
\* keeps the attach/detach/move records and accepts when there is one;
\* what it ignores leaves the records of the last accepted event alone.
op_process_event(S, ptr, fail) ==
    LET me == Ent(S, ptr) IN
    IF fail THEN RetS(S, 0 - EIO)
    ELSE CASE ptr = "kernel" -> RetS(S, 0)
           [] ptr = "userspace" -> RetS([S EXCEPT !.pending[ptr] = <<>>], 0)
           [] ptr = "fanotify" ->
                LET recs == SelectSeq(S.pending[ptr], LAMBDA r : r # "other")
                    S1 == [S EXCEPT !.pending[ptr] = <<>>]
                IN IF recs # <<>>
                   THEN RetS(SetEnt(S1, ptr, [me EXCEPT !.data = recs]), 0)
                   ELSE RetS(S1, 1)

\* op_next_fs (fanotify only): one record per call, then 1 (no more data)
op_next_fs(S, ptr) ==
    LET me == Ent(S, ptr) IN
    IF me.data = <<>> THEN RetS(S, 1)
    ELSE RetS(SetEnt(S, ptr, [me EXCEPT !.data = Tail(@)]), 0)

\* -------------------------------------------------------------- monitor.c
\* what a call meets besides its arguments: the system call that fails
\* during it, if one does (kind: which call, at: for which entry)
NoFault == [kind |-> "none", at |-> ""]

FaultsOf(kinds) ==
    {NoFault}
    \cup {[kind |-> k, at |-> ""] : k \in kinds \cap {"epoll_create1", "epoll_wait"}}
    \cup {[kind |-> k, at |-> t] :
            k \in kinds \cap {"op_get_fd", "epoll_ctl", "op_process_event"},
            t \in Types}

Fails(in, kind, ptr) == in.kind = kind /\ in.at = ptr

mnt_new_monitor == [refcount |-> 1, fd |-> NoFd, last |-> NULL]

mnt_ref_monitor(S) == [S EXCEPT !.mn.refcount = @ + 1]

RemoveAt(q, i) == SubSeq(q, 1, i - 1) \o SubSeq(q, i + 1, Len(q))

\* list_del(&me->ents); if (me->fd >= 0) close(me->fd); free(me)
free_monitor_entry_unlink(S, ptr, fd) ==
    IF fd >= 0
    THEN OsClose([S EXCEPT !.ents = RemoveAt(@, EntIdx(S, ptr))], fd)
    ELSE [S EXCEPT !.ents = RemoveAt(@, EntIdx(S, ptr))]

free_monitor_entry(S, ptr) ==
    free_monitor_entry_unlink(op_free_data(S, ptr), ptr, Ent(S, ptr).fd)

monitor_new_entry(S) ==
    [S EXCEPT !.ents = Append(@,
        [fd |-> NoFd, id |-> 0 - 1, path |-> "", type |-> "", events |-> {},
         opers |-> "", data |-> <<>>, enabled |-> FALSE, active |-> FALSE])]

\* the entry of the type and id, NULL when there is none
monitor_get_entry(S, type, id) ==
    IF \E i \in 1..Len(S.ents) : S.ents[i].type = type /\ S.ents[i].id = id
    THEN type ELSE NULL

\* while (epoll_wait(mn->fd, events, 1, 0) > 0);
\* n is the number of waits after which every item of the ready list has
\* been polled once; a wait that still reports then reports for ever
RECURSIVE Drain(_, _)
DrainNext(W, n) ==
    IF W.rc = 0 THEN W
    ELSE IF n = 0 THEN [W EXCEPT !.pc = "hung"]
    ELSE Drain(W, n - 1)

Drain(S, n) == DrainNext(EpollWait(S), n)

\* variant: the outcome of EPOLL_CTL_ADD is not looked at
monitor_modify_epoll_added_unchecked(A, events) ==
    IF events \cap {"EPOLLIN", "EPOLLET"} # {}
    THEN RetS(Drain(A, Len(A.rdl)), 0)
    ELSE RetS(A, 0)

\* the enable branch after epoll_ctl(EPOLL_CTL_ADD), A.rc being its errno
monitor_modify_epoll_added(A, events) ==
    IF A.rc # 0 /\ A.rc # EEXIST THEN RetS(A, 0 - A.rc)
    ELSE IF events \cap {"EPOLLIN", "EPOLLET"} # {}
    THEN RetS(Drain(A, Len(A.rdl)), 0)
    ELSE RetS(A, 0)

\* the enable branch after op_get_fd, G.rc being the descriptor or -errno
monitor_modify_epoll_opened(G, ptr, events, in) ==
    IF G.rc < 0 THEN G
    ELSE monitor_modify_epoll_added(
            EpollCtlAdd(G, G.rc, events, ptr, Fails(in, "epoll_ctl", ptr)),
            events)

\* the disable branch after epoll_ctl(EPOLL_CTL_DEL), D.rc being its errno
monitor_modify_epoll_deleted(D) ==
    IF D.rc # 0 /\ D.rc # ENOENT THEN RetS(D, 0 - D.rc) ELSE RetS(D, 0)

\* variant: no test for a missing epoll instance
monitor_modify_epoll_flagged_untested(S, ptr, enable, in) ==
    IF enable
    THEN monitor_modify_epoll_opened(
            op_get_fd(S, ptr, Fails(in, "op_get_fd", ptr)),
            ptr, Ent(S, ptr).events, in)
    ELSE IF Ent(S, ptr).fd # 0
    THEN monitor_modify_epoll_deleted(EpollCtlDel(S, Ent(S, ptr).fd))
    ELSE RetS(S, 0)

\* monitor_modify_epoll after "me->enabled = enable; me->active = 0"
monitor_modify_epoll_flagged(S, ptr, enable, in) ==
    IF S.mn.fd < 0 THEN RetS(S, 0)
    ELSE IF enable
    THEN monitor_modify_epoll_opened(
            op_get_fd(S, ptr, Fails(in, "op_get_fd", ptr)),
            ptr, Ent(S, ptr).events, in)
    ELSE IF Ent(S, ptr).fd # 0
    THEN monitor_modify_epoll_deleted(EpollCtlDel(S, Ent(S, ptr).fd))
    ELSE RetS(S, 0)

\* variant: the entry's private data is dropped with the flags
monitor_modify_epoll_resets_data(S, ptr, enable, in) ==
    monitor_modify_epoll_flagged(
        Unaccepted(SetEnt(S, ptr, [Ent(S, ptr) EXCEPT !.enabled = enable,
                                                      !.active = FALSE,
                                                      !.data = <<>>]), ptr),
        ptr, enable, in)

monitor_modify_epoll(S, ptr, enable, in) ==
    monitor_modify_epoll_flagged(
        Unaccepted(SetEnt(S, ptr, [Ent(S, ptr) EXCEPT !.enabled = enable,
                                                      !.active = FALSE]), ptr),
        ptr, enable, in)

\* the loop of mnt_monitor_close_fd without op_close_fd
RECURSIVE CloseEntries_keeps_fds(_, _)
CloseEntries_keeps_fds(S, i) ==
    IF i > Len(S.ents) THEN S
    ELSE CloseEntries_keeps_fds(
            IF S.mn.fd >= 0
            THEN monitor_modify_epoll(S, S.ents[i].type, FALSE, NoFault)
            ELSE S,
            i + 1)

\* the loop of mnt_monitor_close_fd without monitor_modify_epoll
RECURSIVE CloseEntries_keeps_enabled(_, _)
CloseEntries_keeps_enabled(S, i) ==
    IF i > Len(S.ents) THEN S
    ELSE CloseEntries_keeps_enabled(op_close_fd(S, S.ents[i].type), i + 1)

\* the loop of mnt_monitor_close_fd over the entries i..Len
RECURSIVE CloseEntries(_, _)
CloseEntries(S, i) ==
    IF i > Len(S.ents) THEN S
    ELSE CloseEntries(
            op_close_fd(IF S.mn.fd >= 0
                        THEN monitor_modify_epoll(S, S.ents[i].type, FALSE,
                                                  NoFault)
                        ELSE S,
                        S.ents[i].type),
            i + 1)

\* mnt_monitor_close_fd after its loop, without close(mn->fd)
mnt_monitor_close_fd_keeps_epoll(S) == RetS([S EXCEPT !.mn.fd = NoFd], 0)

\* mnt_monitor_close_fd after its loop
mnt_monitor_close_fd_epoll(S) ==
    RetS([IF S.mn.fd >= 0 THEN OsClose(S, S.mn.fd) ELSE S
            EXCEPT !.mn.fd = NoFd], 0)

\* the loop of mnt_unref_monitor: frees the first entry until none is left
RECURSIVE FreeEntries(_)
FreeEntries(S) ==
    IF S.ents = <<>> THEN S
    ELSE FreeEntries(free_monitor_entry(S, S.ents[1].type))

\* variant: mnt_monitor_close_fd destroys the entries as well
mnt_monitor_close_fd_frees_entries(S) ==
    RetS(FreeEntries(mnt_monitor_close_fd_epoll(CloseEntries(S, 1))), 0)

mnt_monitor_close_fd(S) == mnt_monitor_close_fd_epoll(CloseEntries(S, 1))

\* mnt_unref_monitor with "refcount < 0" for "refcount <= 0"
mnt_unref_monitor_below_zero(S) ==
    LET S1 == [S EXCEPT !.mn.refcount = @ - 1] IN
    IF S1.mn.refcount < 0
    THEN [FreeEntries(mnt_monitor_close_fd(S1)) EXCEPT !.freed = TRUE]
    ELSE S1

mnt_unref_monitor(S) ==
    LET S1 == [S EXCEPT !.mn.refcount = @ - 1] IN
    IF S1.mn.refcount <= 0
    THEN [FreeEntries(mnt_monitor_close_fd(S1)) EXCEPT !.freed = TRUE]
    ELSE S1

\* the loop of mnt_monitor_get_fd over the entries i..Len
RECURSIVE AddEntries(_, _, _)
AddEntriesNext(M, i, in) ==
    IF M.pc = "hung" \/ M.rc # 0 THEN M
    ELSE AddEntries(M, i + 1, in)

AddEntries(S, i, in) ==
    IF i > Len(S.ents) THEN RetS(S, 0)
    ELSE IF ~S.ents[i].enabled THEN AddEntries(S, i + 1, in)
    ELSE AddEntriesNext(monitor_modify_epoll(S, S.ents[i].type, TRUE, in),
                        i, in)

\* mnt_monitor_get_fd after its loop with a label err that only returns
mnt_monitor_get_fd_added_keeps_fd(A) ==
    IF A.pc = "hung" THEN A
    ELSE IF A.rc # 0 THEN RetS(A, A.rc)
    ELSE RetS(A, A.mn.fd)

\* mnt_monitor_get_fd after its loop: the label err closes mn->fd
mnt_monitor_get_fd_added(A) ==
    IF A.pc = "hung" THEN A
    ELSE IF A.rc # 0
    THEN RetS([OsClose(A, A.mn.fd) EXCEPT !.mn.fd = NoFd], A.rc)
    ELSE RetS(A, A.mn.fd)

\* mnt_monitor_get_fd without "if (mn->fd >= 0) return mn->fd"
mnt_monitor_get_fd_rebuilds(S, in) ==
    IF Fails(in, "epoll_create1", "") THEN RetS(S, 0 - EMFILE)
    ELSE mnt_monitor_get_fd_added(
            AddEntries([S EXCEPT !.fdtab[AllocFd(S, "epoll")] = "epoll",
                                 !.mn.fd = AllocFd(S, "epoll")], 1, in))

mnt_monitor_get_fd(S, in) ==
    IF S.mn.fd >= 0 THEN RetS(S, S.mn.fd)
    ELSE IF Fails(in, "epoll_create1", "") THEN RetS(S, 0 - EMFILE)
    ELSE mnt_monitor_get_fd_added(
            AddEntries([S EXCEPT !.fdtab[AllocFd(S, "epoll")] = "epoll",
                                 !.mn.fd = AllocFd(S, "epoll")], 1, in))

\* the do-while loop of read_epoll_events.  n is the number of further
\* "ignore" answers after which every item of the ready list has been
\* processed once; a loop that is still told "ignore" then never ends.
RECURSIVE ReadLoop(_, _, _, _)
\* variant: every answer of op_process_event that is not an error counts
\* as "accept"
ReadLoopProcessed_accepts_ignore(P, ev, timeout, in, n) ==
    IF P.rc < 0 THEN [P EXCEPT !.ev = NULL]
    ELSE [RetS(Accepted(SetEnt(P, ev, [Ent(P, ev) EXCEPT !.active = TRUE]),
                        ev), 0) EXCEPT !.ev = ev]

\* after op_process_event for the entry ev, P.rc being its answer
ReadLoopProcessed(P, ev, timeout, in, n) ==
    IF P.rc < 0 THEN [P EXCEPT !.ev = NULL]
    ELSE IF P.rc = 0
    THEN [RetS(Accepted(SetEnt(P, ev, [Ent(P, ev) EXCEPT !.active = TRUE]),
                        ev), 0) EXCEPT !.ev = ev]
    ELSE IF n = 0 THEN [P EXCEPT !.pc = "hung", !.ev = NULL]
    ELSE ReadLoop(P, timeout, in, n - 1)

\* variant: an event without an entry in data.ptr counts as "nothing"
ReadLoopWaited_untagged_nothing(W, timeout, in, n) ==
    IF W.rc = 0
    THEN IF timeout # 0 /\ Fails(in, "epoll_wait", "")
         THEN [RetS(W, 0 - EINTR) EXCEPT !.ev = NULL]
         ELSE IF timeout < 0 THEN [RetS(W, 1) EXCEPT !.pc = "wait", !.ev = NULL]
         ELSE [RetS(W, 1) EXCEPT !.ev = NULL]
    ELSE IF W.ev = NULL THEN RetS(W, 1)
    ELSE ReadLoopProcessed(
            op_process_event(W, W.ev, Fails(in, "op_process_event", W.ev)),
            W.ev, timeout, in, n)

\* variant: a wait that expires takes back the marks of earlier waits
ReadLoopWaited_expiry_unmarks(W, timeout, in, n) ==
    IF W.rc = 0
    THEN IF timeout # 0 /\ Fails(in, "epoll_wait", "")
         THEN [RetS(W, 0 - EINTR) EXCEPT !.ev = NULL]
         ELSE IF timeout < 0 THEN [RetS(W, 1) EXCEPT !.pc = "wait", !.ev = NULL]
         ELSE [RetS(W, 1) EXCEPT
                 !.ev = NULL,
                 !.ents = [i \in 1..Len(W.ents) |->
                              [W.ents[i] EXCEPT !.active = FALSE]]]
    ELSE IF W.ev = NULL THEN RetS(W, 0 - EINVAL)
    ELSE ReadLoopProcessed(
            op_process_event(W, W.ev, Fails(in, "op_process_event", W.ev)),
            W.ev, timeout, in, n)

\* after epoll_wait, W.rc being the number of events and W.ev the entry
ReadLoopWaited(W, timeout, in, n) ==
    IF W.rc = 0
    THEN IF timeout # 0 /\ Fails(in, "epoll_wait", "")
         THEN [RetS(W, 0 - EINTR) EXCEPT !.ev = NULL]
         ELSE IF timeout < 0 THEN [RetS(W, 1) EXCEPT !.pc = "wait", !.ev = NULL]
         ELSE [RetS(W, 1) EXCEPT !.ev = NULL]
    ELSE IF W.ev = NULL THEN RetS(W, 0 - EINVAL)
    ELSE ReadLoopProcessed(
            op_process_event(W, W.ev, Fails(in, "op_process_event", W.ev)),
            W.ev, timeout, in, n)

ReadLoop(S, timeout, in, n) == ReadLoopWaited(EpollWait(S), timeout, in, n)

\* rc: <0 on error, 0 on success (ev is the entry), 1 nothing.  A wait
\* with timeout -1 that finds nothing ready leaves the caller blocked
\* (pc "wait"); a blocked wait can be interrupted (EINTR).
read_epoll_events(S, timeout, in) == ReadLoop(S, timeout, in, Len(S.rdl))

\* variant: read_epoll_events' rc handed on as it is
WaitRc_unmapped(rc) == rc

\* the tail of mnt_monitor_wait: the value returned for read_epoll_events' rc
WaitRc(rc) == IF rc = 0 THEN 1 ELSE IF rc = 1 THEN 0 ELSE rc

\* the return statement of mnt_monitor_wait
mnt_monitor_wait_return(R) == RetS(R, WaitRc(R.rc))

\* mnt_monitor_wait after "if (mn->fd < 0) rc = mnt_monitor_get_fd(mn)"
mnt_monitor_wait_read(G, timeout, in) ==
    IF G.pc = "hung" \/ G.rc < 0 THEN G
    ELSE mnt_monitor_wait_return(read_epoll_events(G, timeout, in))

mnt_monitor_wait(S, timeout, in) ==
    mnt_monitor_wait_read(
        IF S.mn.fd < 0 THEN mnt_monitor_get_fd(S, in) ELSE RetS(S, 0),
        timeout, in)

\* get_active that walks the list from its tail
get_active_from_tail(S) ==
    IF \E i \in 1..Len(S.ents) : S.ents[i].active
    THEN LET i == CHOOSE i \in 1..Len(S.ents) :
                    /\ S.ents[i].active
                    /\ \A j \in (i + 1)..Len(S.ents) : ~S.ents[j].active
         IN S.ents[i].type
    ELSE NULL

\* the first active entry in list order, NULL when there is none
get_active(S) ==
    IF \E i \in 1..Len(S.ents) : S.ents[i].active
    THEN LET i == CHOOSE i \in 1..Len(S.ents) :
                    /\ S.ents[i].active
                    /\ \A j \in 1..(i - 1) : ~S.ents[j].active
         IN S.ents[i].type
    ELSE NULL

\* variant: the epoll instance is read whether or not an entry is active
mnt_monitor_next_change_find_reads(S, in) == read_epoll_events(S, 0, in)

\* variant: the epoll instance is read with timeout -1, not 0
mnt_monitor_next_change_find_blocks(S, in) ==
    IF get_active(S) = NULL THEN read_epoll_events(S, 0 - 1, in)
    ELSE [RetS(S, 0) EXCEPT !.ev = get_active(S)]

\* me = get_active(mn); if (!me) rc = read_epoll_events(mn, 0, &me);
mnt_monitor_next_change_find(S, in) ==
    IF get_active(S) = NULL THEN read_epoll_events(S, 0, in)
    ELSE [RetS(S, 0) EXCEPT !.ev = get_active(S)]

\* the tail of mnt_monitor_next_change without "me->active = 0"
mnt_monitor_next_change_keeps_active(R) ==
    IF R.pc = "hung" \/ R.rc # 0 THEN R
    ELSE [R EXCEPT !.mn.last = R.ev, !.rc = 0]

\* the tail of mnt_monitor_next_change: me->active = 0; mn->last = me
mnt_monitor_next_change_found(R) ==
    IF R.pc = "hung" \/ R.rc # 0 THEN R
    ELSE [Unaccepted(SetEnt(R, R.ev, [Ent(R, R.ev) EXCEPT !.active = FALSE]),
                     R.ev) EXCEPT !.mn.last = R.ev, !.rc = 0]

\* variant: no test of mn->fd
mnt_monitor_next_change_unbuilt(S, in) ==
    mnt_monitor_next_change_found(
        mnt_monitor_next_change_find([S EXCEPT !.mn.last = NULL], in))

mnt_monitor_next_change(S, in) ==
    IF S.mn.fd < 0 THEN RetS(S, 0 - EINVAL)
    ELSE mnt_monitor_next_change_found(
            mnt_monitor_next_change_find([S EXCEPT !.mn.last = NULL], in))

\* variant: mnt_monitor_next_change is called once, not in a loop
CleanupLoop_once(S, in, n) == mnt_monitor_next_change(S, in)

\* while ((rc = mnt_monitor_next_change(mn, NULL, NULL)) == 0);
\* n is the number of further reports after which every active entry and
\* every item of the ready list has been reported once; a loop that is
\* still given a report then never ends
RECURSIVE CleanupLoop(_, _, _)
CleanupLoopNext(N, in, n) ==
    IF N.pc = "hung" \/ N.rc # 0 THEN N
    ELSE IF n = 0 THEN [N EXCEPT !.pc = "hung"]
    ELSE CleanupLoop(N, in, n - 1)

CleanupLoop(S, in, n) == CleanupLoopNext(mnt_monitor_next_change(S, in), in, n)

\* return rc < 0 ? rc : 0;
mnt_monitor_event_cleanup_return(C) == RetS(C, IF C.rc < 0 THEN C.rc ELSE 0)

mnt_monitor_event_cleanup(S, in) ==
    IF S.mn.fd < 0 THEN RetS(S, 0 - EINVAL)
    ELSE mnt_monitor_event_cleanup_return(
            CleanupLoop(S, in, Len(S.ents) + Len(S.rdl)))

\* mnt_monitor_event_next_fs that treats a missing mn->last like a
\* missing fs
mnt_monitor_event_next_fs_last_required(S, fs) ==
    IF fs = NULL \/ S.mn.last = NULL THEN RetS(S, 0 - EINVAL)
    ELSE IF ~HasNextFs(Ent(S, S.mn.last).opers) THEN RetS(S, 0 - ENOTSUP)
    ELSE op_next_fs(S, S.mn.last)

\* mnt_monitor_event_next_fs without the test of opers->op_next_fs
mnt_monitor_event_next_fs_any_driver(S, fs) ==
    IF fs = NULL THEN RetS(S, 0 - EINVAL)
    ELSE IF S.mn.last = NULL THEN RetS(S, 1)
    ELSE op_next_fs(S, S.mn.last)

mnt_monitor_event_next_fs(S, fs) ==
    IF fs = NULL THEN RetS(S, 0 - EINVAL)
    ELSE IF S.mn.last = NULL THEN RetS(S, 1)
    ELSE IF ~HasNextFs(Ent(S, S.mn.last).opers) THEN RetS(S, 0 - ENOTSUP)
    ELSE op_next_fs(S, S.mn.last)

\* mnt_monitor_enable_mountinfo / _userspace / _fanotify: look the entry
\* up, create and fill it in on the first enable, then (de)register it
mnt_monitor_enable(S, type, enable, in) ==
    IF monitor_get_entry(S, type, 0 - 1) # NULL
    THEN monitor_modify_epoll(S, type, enable, in)
    ELSE IF ~enable THEN RetS(S, 0)
    ELSE LET S1 == monitor_new_entry(S)
             n == Len(S1.ents)
             S2 == [S1 EXCEPT !.ents[n].type = type,
                              !.ents[n].opers = OpersOf(type),
                              !.ents[n].path = PathOf(type),
                              !.ents[n].events = EventsOf(type)]
         IN monitor_modify_epoll(S2, type, TRUE, in)

\* --------------------------------------------- setpriv: do_landlock
\* largest number of --landlock-rule options on the command line
MaxRules == 2

\* the rights of landlock_access_fs[] the model tells apart
AccessFs == {"execute", "read-file"}

\* --landlock-access arguments: all rights, one right, a class other than fs
AccessArgs == {"fs", "fs:", "fs:execute", "fs:read-file", "net"}

\* the paths of --landlock-rule path-beneath:<rights>:<path>
RulePaths == {"/a", "/b"}

SETPRIV_EXIT_PRIVERR == 127
EXIT_FAILURE == 1

\* init_landlock_opts on a zeroed struct: no access, an empty rule list.
\* fd is the ruleset descriptor of do_landlock, todo the rules its loop
\* has yet to visit, calls the system calls made so far with their
\* outcome, status the exit status (-1 while the program runs), nnp the
\* no_new_privs attribute of the process and restricted whether a
\* ruleset is enforced on it.
init_landlock_opts ==
    [pc |-> "options", access_fs |-> {}, rules |-> <<>>, fd |-> NoFd,
     todo |-> <<>>, calls |-> <<>>, status |-> 0 - 1, nnp |-> FALSE,
     restricted |-> FALSE]

\* err(status, ...)
LandlockErr(L, status) == [L EXCEPT !.pc = "exited", !.status = status]

\* the system call name with result ok is made
LandlockCall(L, name, arg, ok) ==
    [L EXCEPT !.calls = Append(@, [call |-> name, arg |-> arg, ok |-> ok])]

parse_landlock_fs_access(list) ==
    IF list = "" THEN AccessFs ELSE {list}

parse_landlock_access(L, str) ==
    CASE str = "fs" -> [L EXCEPT !.access_fs = @ \cup AccessFs]
      [] str = "fs:" ->
            [L EXCEPT !.access_fs = @ \cup parse_landlock_fs_access("")]
      [] str = "fs:execute" ->
            [L EXCEPT !.access_fs = @ \cup parse_landlock_fs_access("execute")]
      [] str = "fs:read-file" ->
            [L EXCEPT !.access_fs = @ \cup parse_landlock_fs_access("read-file")]
      [] OTHER -> L

\* path-beneath:<rights>:<path>; opened tells whether open(path) worked.
\* list_add puts the new rule at the head of opts->rules.
parse_landlock_rule(L, rights, path, opened) ==
    IF ~opened THEN LandlockErr(L, EXIT_FAILURE)
    ELSE [L EXCEPT !.rules =
            <<[allowed_access |-> parse_landlock_fs_access(rights),
               path |-> path]>> \o @]

\* variant: do_landlock without "if (!opts->access_fs) return;"
do_landlock_entry_unchecked(L) == [L EXCEPT !.pc = "create"]

\* if (!opts->access_fs) return;
do_landlock_entry(L) ==
    IF L.access_fs = {} THEN [L EXCEPT !.pc = "returned"]
    ELSE [L EXCEPT !.pc = "create"]

\* list_for_each: the next rule, or the end of the list
do_landlock_next_rule(L) ==
    IF L.todo = <<>> THEN [L EXCEPT !.pc = "prctl"] ELSE [L EXCEPT !.pc = "rule"]

\* fd = landlock_create_ruleset(&ruleset_attr, sizeof(ruleset_attr), 0)
do_landlock_create(L, ok) ==
    IF ~ok
    THEN LandlockErr(LandlockCall(L, "landlock_create_ruleset", L.access_fs,
                                  FALSE), SETPRIV_EXIT_PRIVERR)
    ELSE do_landlock_next_rule(
            [LandlockCall(L, "landlock_create_ruleset", L.access_fs, TRUE)
                EXCEPT !.fd = 3, !.todo = L.rules])

\* ret = landlock_add_rule(fd, rule->rule_type, &rule->path_beneath_attr, 0)
do_landlock_add_rule(L, ok) ==
    IF ~ok
    THEN LandlockErr(LandlockCall(L, "landlock_add_rule", Head(L.todo), FALSE),
                     SETPRIV_EXIT_PRIVERR)
    ELSE do_landlock_next_rule(
            [LandlockCall(L, "landlock_add_rule", Head(L.todo), TRUE)
                EXCEPT !.todo = Tail(@)])

\* prctl(PR_SET_NO_NEW_PRIVS, 1, 0, 0, 0)
do_landlock_prctl(L, ok) ==
    IF ~ok
    THEN LandlockErr(LandlockCall(L, "prctl", "PR_SET_NO_NEW_PRIVS", FALSE),
                     SETPRIV_EXIT_PRIVERR)
    ELSE [LandlockCall(L, "prctl", "PR_SET_NO_NEW_PRIVS", TRUE)
            EXCEPT !.nnp = TRUE, !.pc = "restrict"]

\* landlock_restrict_self(fd, 0)
do_landlock_restrict(L, ok) ==
    IF ~ok
    THEN LandlockErr(LandlockCall(L, "landlock_restrict_self", L.fd, FALSE),
                     SETPRIV_EXIT_PRIVERR)
    ELSE [LandlockCall(L, "landlock_restrict_self", L.fd, TRUE)
            EXCEPT !.restricted = TRUE, !.pc = "returned"]

\* ------------------------------------- zramctl: A_RESET and A_CREATE
\* largest number of devices named on the command line
MaxDevs == 2

\* the device nodes the command line can name
ZramDevs == {"/dev/zram0", "/dev/zram1"}

\* struct zram after new_zram(devname): lock_fd = -EBADF.  The program
\* state around it: action and find from the options, argv and optind,
\* rc of main, the exit status (-1 while the program runs), the devices
\* that exist in sysfs, and steps, the steps taken for each argument
\* with what they returned and the value of lock_fd at the time.
new_zram(Z, devname) == [Z EXCEPT !.devname = devname, !.lock_fd = 0 - EBADF]

zramctl_start ==
    [pc |-> "options", action |-> "none", find |-> FALSE, argv |-> <<>>,
     optind |-> 1, devname |-> "", lock_fd |-> 0 - EBADF, rc |-> 0,
     status |-> 0 - 1, sysfs |-> {}, steps |-> <<>>]

\* a step of main for the argument in work
ZramStep(Z, name, ok) ==
    [Z EXCEPT !.steps = Append(@, [step |-> name, optind |-> Z.optind,
                                   ok |-> ok, lock_fd |-> Z.lock_fd])]

\* a step has failed: A_RESET warns, sets rc and goes on with
\* zram_control_remove; A_CREATE leaves through err(EXIT_FAILURE, ...)
ZramFailed(Z) ==
    IF Z.action = "reset" THEN [Z EXCEPT !.rc = 1, !.pc = "remove"]
    ELSE [Z EXCEPT !.pc = "exited", !.status = EXIT_FAILURE,
                   !.lock_fd = 0 - EBADF]

\* main after the options: "no device specified", find_free_zram (free is
\* the device it found, "" when there is none) or new_zram(argv[optind])
zramctl_main(Z, action, find, argv, sysfs, free) ==
    LET M == [Z EXCEPT !.action = action, !.find = find, !.argv = argv,
                       !.sysfs = sysfs]
    IN IF action = "create" /\ find
       THEN IF free = ""
            THEN [M EXCEPT !.pc = "exited", !.status = EXIT_FAILURE]
            ELSE [new_zram(M, free) EXCEPT !.pc = "wait",
                                           !.sysfs = @ \cup {free}]
       ELSE IF argv = <<>>
            THEN [M EXCEPT !.pc = "exited", !.status = EXIT_FAILURE]
            ELSE [new_zram(M, argv[1]) EXCEPT !.pc = "exist"]

\* if (!zram_exist(zram))
zram_exist(Z) ==
    IF Z.devname \in Z.sysfs
    THEN [ZramStep(Z, "zram_exist", TRUE) EXCEPT !.pc = "wait"]
    ELSE ZramFailed(ZramStep(Z, "zram_exist", FALSE))

\* zram_wait_initialized, r being what it returns
zram_wait_initialized(Z, r) ==
    IF r = 0
    THEN [ZramStep(Z, "zram_wait_initialized", TRUE) EXCEPT !.pc = "lock"]
    ELSE ZramFailed(ZramStep(Z, "zram_wait_initialized", FALSE))

\* zram_lock: already locked, open or sd_device_open, flock; opened and
\* flocked tell whether the two system calls work
zram_lock(Z, opened, flocked) ==
    IF Z.lock_fd >= 0
    THEN [ZramStep(Z, "zram_lock", TRUE) EXCEPT !.pc = "unlock"]
    ELSE IF ~opened \/ ~flocked
    THEN ZramFailed(ZramStep(Z, "zram_lock", FALSE))
    ELSE [ZramStep([Z EXCEPT !.lock_fd = 3], "zram_lock", TRUE)
             EXCEPT !.pc = "unlock"]

\* variant: zram_unlock that keeps the descriptor
zram_unlock_keeps(Z) == [Z EXCEPT !.pc = "reset"]

\* zram_unlock: close(z->lock_fd); z->lock_fd = -EBADF
zram_unlock(Z) ==
    IF Z.lock_fd >= 0
    THEN [ZramStep([Z EXCEPT !.lock_fd = 0 - EBADF], "zram_unlock", TRUE)
             EXCEPT !.pc = "reset"]
    ELSE [Z EXCEPT !.pc = "reset"]

\* zram_set_u64parm(zram, "reset", 1), written telling whether the write
\* to the attribute worked
zram_set_reset(Z, written) ==
    IF ~written THEN ZramFailed(ZramStep(Z, "reset", FALSE))
    ELSE [ZramStep(Z, "reset", TRUE) EXCEPT
             !.pc = IF Z.action = "reset" THEN "remove" ELSE "disksize"]

\* A_RESET: zram_control_remove (removed telling whether hot_remove
\* worked), free_zram, optind++ and the next turn of the loop
zram_reset_next(Z, removed) ==
    LET R == [Z EXCEPT !.sysfs = IF removed THEN @ \ {Z.devname} ELSE @,
                       !.lock_fd = 0 - EBADF,
                       !.optind = @ + 1]
    IN IF R.optind <= Len(R.argv)
       THEN [new_zram(R, R.argv[R.optind]) EXCEPT !.pc = "exist"]
       ELSE [R EXCEPT !.pc = "exited",
                      !.status = IF R.rc # 0 THEN EXIT_FAILURE ELSE 0]

\* A_CREATE after the reset: max_comp_streams, comp_algorithm,
\* algorithm_params, disksize; free_zram; return
zram_create_setup(Z, written) ==
    IF ~written THEN ZramFailed(ZramStep(Z, "disksize", FALSE))
    ELSE [ZramStep(Z, "disksize", TRUE) EXCEPT !.pc = "exited", !.status = 0]

\* ------------------------------------------------------------ the system
Init ==
    /\ zramctl = zramctl_start
    /\ setpriv = init_landlock_opts
    /\ mn = mnt_new_monitor
    /\ ents = <<>>
    /\ freed = FALSE
    /\ pc = "idle"
    /\ fdtab = [n \in Fds |-> IF n = 0 THEN "stdin" ELSE "closed"]
    /\ interest = {}
    /\ rdl = <<>>
    /\ pending = [t \in Types |-> <<>>]
    /\ call = [op |-> "mnt_new_monitor", rc |-> 0]
    /\ hist = [badclose |-> FALSE, freedata |-> [t \in Types |-> 0],
               retains |-> 0, releases |-> 0, acc |-> <<>>, owed |-> {}]

\* the state after a call: S is what the function left; the call is
\* recorded with its return value (which means nothing while pc shows
\* that the call has not returned)
Commit(S, op) ==
    /\ mn' = S.mn
    /\ ents' = S.ents
    /\ freed' = S.freed
    /\ pc' = S.pc
    /\ fdtab' = S.fdtab
    /\ interest' = S.interest
    /\ rdl' = S.rdl
    /\ pending' = S.pending
    /\ hist' = S.hist
    /\ call' = [op |-> op, rc |-> IF S.pc = "idle" THEN S.rc ELSE 0]
    /\ UNCHANGED utils

\* the caller is between two calls on a monitor it still holds
Live == ~freed /\ pc = "idle"

\* a system call can fail only where the function makes it: the epoll
\* instance is created when there is none, an entry's descriptor is
\* opened when it has none and added when it is not on the interest
\* list, and an event is processed for a descriptor on the ready list
CanFail(in) ==
    LET i == EntIdx(Cur, in.at) IN
    CASE in.kind = "none" -> TRUE
      [] in.kind = "epoll_create1" -> mn.fd < 0
      [] in.kind = "epoll_wait" -> TRUE
      [] in.kind = "op_get_fd" -> i # 0 /\ ents[i].fd < 0
      [] in.kind = "epoll_ctl" ->
            i # 0 /\ (ents[i].fd < 0 \/ ~Registered(Cur, ents[i].fd))
      [] in.kind = "op_process_event" ->
            i # 0 /\ ents[i].fd >= 0 /\ RemoveFd(rdl, ents[i].fd) # rdl

Enable(t, enable, in) ==
    /\ Live
    /\ monitor_get_entry(Cur, t, 0 - 1) = NULL => Len(ents) < MaxEnts
    /\ in # NoFault =>
         /\ enable /\ mn.fd >= 0 /\ in.at = t
         /\ CanFail(in) \/ monitor_get_entry(Cur, t, 0 - 1) = NULL
    /\ Commit(mnt_monitor_enable(Cur, t, enable, in),
              IF enable THEN "enable" ELSE "disable")

GetFd(in) ==
    /\ Live
    /\ in # NoFault => mn.fd < 0 /\ CanFail(in)
    /\ Commit(mnt_monitor_get_fd(Cur, in), "mnt_monitor_get_fd")

CloseFd ==
    /\ Live
    /\ Commit(mnt_monitor_close_fd(Cur), "mnt_monitor_close_fd")

Wait(timeout, in) ==
    /\ Live
    /\ CanFail(in)
    /\ in.kind = "epoll_wait" => timeout # 0
    /\ Commit(mnt_monitor_wait(Cur, timeout, in), "mnt_monitor_wait")

\* a blocked epoll_wait(-1) is woken by a ready item (or interrupted) and
\* mnt_monitor_wait goes on in its read_epoll_events loop
WaitResume(in) ==
    /\ ~freed /\ pc = "wait"
    /\ rdl # <<>> \/ Fails(in, "epoll_wait", "")
    /\ CanFail(in)
    /\ Commit(mnt_monitor_wait_return(
                read_epoll_events([Cur EXCEPT !.pc = "idle"], 0 - 1, in)),
              "mnt_monitor_wait")

NextChange(in) ==
    /\ Live
    /\ CanFail(in)
    /\ Commit(mnt_monitor_next_change(Cur, in), "mnt_monitor_next_change")

EventCleanup(in) ==
    /\ Live
    /\ CanFail(in)
    /\ Commit(mnt_monitor_event_cleanup(Cur, in), "mnt_monitor_event_cleanup")

EventNextFs(fs) ==
    /\ Live
    /\ Commit(mnt_monitor_event_next_fs(Cur, fs), "mnt_monitor_event_next_fs")

Ref ==
    /\ Live
    /\ hist.retains < MaxRef
    /\ Commit([mnt_ref_monitor(Cur) EXCEPT !.hist.retains = @ + 1],
              "mnt_ref_monitor")

Unref ==
    /\ Live
    /\ Commit([mnt_unref_monitor(Cur) EXCEPT !.hist.releases = @ + 1],
              "mnt_unref_monitor")

\* the descriptor the object of an entry type is open at, -1 when closed
FdOfObj(t) ==
    IF \E n \in Fds : fdtab[n] = t THEN CHOOSE n \in Fds : fdtab[n] = t
    ELSE NoFd

RecordsOf(t) ==
    CASE t = "kernel" -> {"chg"}
      [] t = "userspace" -> {"utab"}
      [] t = "fanotify" -> {"mnt", "other"}

\* the environment: the mount table or the utab file changes.  An open
\* descriptor gets the notification, and the epoll instance links a
\* registered descriptor into its ready list.
ExtChange(t, rec) ==
    /\ ~freed /\ pc \in {"idle", "wait"}
    /\ FdOfObj(t) # NoFd
    /\ pending' = [pending EXCEPT ![t] =
                      IF t = "kernel" THEN <<rec>> ELSE Append(@, rec)]
    /\ Len(pending'[t]) <= MaxPending
    /\ rdl' = IF Registered(Cur, FdOfObj(t)) /\ RemoveFd(rdl, FdOfObj(t)) = rdl
              THEN Append(rdl, FdOfObj(t)) ELSE rdl
    /\ call' = [op |-> "change", rc |-> 0]
    /\ UNCHANGED <<mn, ents, freed, pc, fdtab, interest, hist, utils>>

\* the application closes its standard input
CloseStdin ==
    /\ ~freed /\ pc \in {"idle", "wait"}
    /\ fdtab[0] = "stdin"
    /\ fdtab' = [fdtab EXCEPT ![0] = "closed"]
    /\ UNCHANGED <<mn, ents, freed, pc, interest, rdl, pending, call, hist,
                   utils>>

RegFaults == FaultsOf({"op_get_fd", "epoll_ctl"})
GetFdFaults == FaultsOf({"epoll_create1", "op_get_fd", "epoll_ctl"})
WaitFaults ==
    FaultsOf({"epoll_create1", "op_get_fd", "epoll_ctl", "epoll_wait",
              "op_process_event"})
ReadFaults == FaultsOf({"op_process_event"})
ResumeFaults == FaultsOf({"epoll_wait", "op_process_event"})

Next ==
    \/ \E t \in Types, enable \in BOOLEAN, in \in RegFaults : Enable(t, enable, in)
    \/ \E in \in GetFdFaults : GetFd(in)
    \/ CloseFd
    \/ \E timeout \in {0 - 1, 0, 1000}, in \in WaitFaults : Wait(timeout, in)
    \/ \E in \in ResumeFaults : WaitResume(in)
    \/ \E in \in ReadFaults : NextChange(in)
    \/ \E in \in ReadFaults : EventCleanup(in)
    \/ \E fs \in {"fs", NULL} : EventNextFs(fs)
    \/ Unref
    \/ \E t \in Types : \E rec \in RecordsOf(t) : ExtChange(t, rec)

Spec == Init /\ [][Next]_vars

\* the same calls in a process that may close its descriptor 0, so that
\* a later open(2) returns 0
NextStdin == Next \/ CloseStdin

SpecStdin == Init /\ [][NextStdin]_vars

\* the same calls with further holders of the monitor
NextRef == Next \/ Ref

SpecRef == Init /\ [][NextRef]_vars

\* ------------------------------------------------- the consumer loop
\* test_wait: create_test_monitor enables the entries named on the
\* command line, then
\*     while (mnt_monitor_wait(mn, -1) > 0)
\*         while (mnt_monitor_next_change(mn, &filename, NULL) == 0) ...
\*     mnt_unref_monitor(mn);
\* The position in the loop is the last call and its return value.  The
\* mount table changes while the loop runs, also between the system
\* calls of the first wait, which builds the epoll instance entry by
\* entry (pc "get_fd").
NextToRegister ==
    IF \E i \in 1..Len(ents) : ents[i].enabled /\ ~Registered(Cur, ents[i].fd)
    THEN ents[CHOOSE i \in 1..Len(ents) :
                /\ ents[i].enabled /\ ~Registered(Cur, ents[i].fd)
                /\ \A j \in 1..(i - 1) :
                      ~(ents[j].enabled /\ ~Registered(Cur, ents[j].fd))].type
    ELSE NULL

\* a record that is a change of the mount table (fanotify also sends
\* records that are none)
RealRecord(rec) == rec # "other"

\* after a report of entry t the loop still owes one if a change of t
\* arrived after the one reported was read
Reported(S) ==
    IF S.pc = "idle" /\ S.rc = 0
    THEN [S EXCEPT !.hist.owed =
            IF \E k \in 1..Len(S.pending[S.mn.last]) :
                    RealRecord(S.pending[S.mn.last][k])
            THEN @ ELSE @ \ {S.mn.last}]
    ELSE S

LoopEnable(t) ==
    /\ call.op \in {"mnt_new_monitor", "enable"}
    /\ EntIdx(Cur, t) = 0
    /\ Enable(t, TRUE, NoFault)

\* mnt_monitor_wait(mn, -1): the first one creates the epoll instance
LoopWait ==
    /\ Live
    /\ \/ call.op = "enable"
       \/ call.op = "mnt_monitor_next_change" /\ call.rc # 0
    /\ IF mn.fd < 0
       THEN Commit([Cur EXCEPT !.fdtab[AllocFd(Cur, "epoll")] = "epoll",
                               !.mn.fd = AllocFd(Cur, "epoll"),
                               !.pc = "get_fd"], "mnt_monitor_wait")
       ELSE Commit(mnt_monitor_wait(Cur, 0 - 1, NoFault), "mnt_monitor_wait")

\* the loop of mnt_monitor_get_fd inside the first wait: one entry is
\* registered per step; after the last one the wait reads the events
LoopRegister ==
    /\ ~freed /\ pc = "get_fd"
    /\ IF NextToRegister # NULL
       THEN Commit(monitor_modify_epoll(Cur, NextToRegister, TRUE, NoFault),
                   "mnt_monitor_wait")
       ELSE Commit(mnt_monitor_wait([Cur EXCEPT !.pc = "idle"], 0 - 1, NoFault),
                   "mnt_monitor_wait")

LoopResume == WaitResume(NoFault)

\* a signal interrupts the blocked epoll_wait
LoopInterrupt == WaitResume([kind |-> "epoll_wait", at |-> ""])

LoopNextChange ==
    /\ Live
    /\ \/ call.op = "mnt_monitor_wait" /\ call.rc > 0
       \/ call.op = "mnt_monitor_next_change" /\ call.rc = 0
    /\ Commit(Reported(mnt_monitor_next_change(Cur, NoFault)),
              "mnt_monitor_next_change")

LoopEnd ==
    /\ call.op = "mnt_monitor_wait" /\ call.rc <= 0
    /\ Unref

\* the mount table or utab changes; the loop owes a report when the
\* record is a change and the entry is enabled and registered
LoopChange(t, rec) ==
    /\ ~freed /\ pc \in {"idle", "wait", "get_fd"}
    /\ FdOfObj(t) # NoFd
    /\ pending' = [pending EXCEPT ![t] =
                      IF t = "kernel" THEN <<rec>> ELSE Append(@, rec)]
    /\ Len(pending'[t]) <= MaxPending
    /\ rdl' = IF Registered(Cur, FdOfObj(t)) /\ RemoveFd(rdl, FdOfObj(t)) = rdl
              THEN Append(rdl, FdOfObj(t)) ELSE rdl
    /\ hist' = [hist EXCEPT !.owed =
                  IF RealRecord(rec) /\ Registered(Cur, FdOfObj(t))
                     /\ t \in {ents[i].type : i \in {j \in 1..Len(ents) :
                                                        ents[j].enabled}}
                  THEN @ \cup {t} ELSE @]
    /\ UNCHANGED <<mn, ents, freed, pc, fdtab, interest, call, utils>>

NextLoop ==
    \/ \E t \in Types : LoopEnable(t)
    \/ LoopWait
    \/ LoopRegister
    \/ LoopResume
    \/ LoopNextChange
    \/ LoopEnd
    \/ LoopInterrupt
    \/ \E t \in Types : \E rec \in RecordsOf(t) : LoopChange(t, rec)

SpecLoop == Init /\ [][NextLoop]_vars

\* ---------------------------------------------------------------- views
EnabledSet == {ents[i].type : i \in {j \in 1..Len(ents) : ents[j].enabled}}

ActiveSet == {ents[i].type : i \in {j \in 1..Len(ents) : ents[j].active}}

RegisteredSet == {r.ptr : r \in interest}

\* ------------------------------------------------------------------- C1
\* C1: once the multiplexing descriptor exists, the entries registered
\* with the multiplexer are exactly the entries whose enabled flag is
\* true, after every call that has returned.
RegisteredIsEnabled ==
    (~freed /\ pc = "idle" /\ mn.fd >= 0) => RegisteredSet = EnabledSet

\* ------------------------------------------------------------------- C2
NextChangeOp == "mnt_monitor_next_change"

\* the step is a mnt_monitor_next_change() call that directly follows a
\* successful one: no other call and no notification lies in between
SecondNextChange ==
    /\ call.op = NextChangeOp /\ call.rc = 0
    /\ \E in \in ReadFaults : NextChange(in)

\* C2 as stated: a next_change() that directly follows a successful
\* next_change(), with no notification arriving in between, returns
\* "no change" (or fails): it reports no entry.
SecondNextChangeReportsNothing ==
    [][SecondNextChange => call'.rc # 0]_vars

\* no descriptor holds an unread notification and no entry other than
\* the one just reported is marked active
NothingElsePending ==
    /\ \A t \in Types : pending[t] = <<>>
    /\ \A i \in 1..Len(ents) : ents[i].active => ents[i].type = mn.last

\* C2 amended: when nothing else is pending after a successful
\* next_change(), a next_change() called in that state returns 1: the
\* consumed event is not reported again.
ConsumedEventNotReportedAgain ==
    (Live /\ call.op = NextChangeOp /\ call.rc = 0 /\ NothingElsePending)
        => mnt_monitor_next_change(Cur, NoFault).rc = 1

\* next_change() has reported an entry and nothing else is pending
ConsumedEventWitness ==
    /\ Live /\ call.op = NextChangeOp /\ call.rc = 0
    /\ mn.last \in Types
    /\ NothingElsePending

\* ------------------------------------------------------------------- C3
\* the step is a mnt_monitor_wait() call that directly follows an
\* enable call that returned success: no notification lies in between
WaitAfterEnable ==
    /\ call.op = "enable" /\ call.rc = 0
    /\ \E timeout \in {0 - 1, 0, 1000}, in \in WaitFaults : Wait(timeout, in)

\* what such a wait may do besides timing out: block (timeout -1, pc
\* "wait") or return the error of a system call of its own that failed
BlocksOrFails ==
    pc' = "wait" \/ (pc' = "idle" /\ call'.rc \in {0 - EMFILE, 0 - ENOSPC,
                                                  0 - EINTR})

\* C3: a wait that directly follows a successful enable, with no change
\* in between, does not report the activation: it marks no entry active
\* and returns 0 (timed out).
ActivationNotReported ==
    [][WaitAfterEnable =>
        /\ \A i \in 1..Len(ents') : ents'[i].active => ents[i].active
        /\ (pc' = "idle" /\ call'.rc = 0) \/ BlocksOrFails]_vars

\* the same without the return: the wait marks no entry active and, if
\* it returns, returns 0 or its own error, never 1
ActivationNeverAccepted ==
    [][WaitAfterEnable =>
        /\ \A i \in 1..Len(ents') : ents'[i].active => ents[i].active
        /\ (pc' = "idle" /\ call'.rc = 0) \/ BlocksOrFails \/ pc' = "hung"]_vars

\* ------------------------------------------------------------------- C5
\* entry t has a notification the multiplexer would deliver: a record
\* that counts as a change is unread and the descriptor is registered
\* and linked into the ready list
DeliverableIn(S, t) ==
    /\ EntIdx(S, t) # 0
    /\ LET fd == Ent(S, t).fd IN
        /\ fd >= 0 /\ Registered(S, fd)
        /\ RemoveFd(S.rdl, fd) # S.rdl
        /\ \E k \in 1..Len(S.pending[t]) : S.pending[t][k] # "other"

Deliverable(t) == DeliverableIn(Cur, t)

\* C5: an enable call that returns while the multiplexing descriptor
\* exists leaves every deliverable notification of another entry
\* deliverable.
EnableKeepsOtherNotifications ==
    [][\A t \in Types, in \in RegFaults :
        (mn.fd >= 0 /\ Enable(t, TRUE, in) /\ pc' = "idle")
        => \A u \in Types \ {t} : Deliverable(u) => Deliverable(u)']_vars

\* ------------------------------------------------------------------- C6
\* the step is a mnt_monitor_next_change() call that reports an entry
\* while entries are active from earlier waits
ReportsActive ==
    /\ ActiveSet # {}
    /\ \E in \in ReadFaults : NextChange(in)
    /\ call'.rc = 0

\* C6 as stated: the entry reported is the one whose event was accepted
\* first.
ReportsInAcceptanceOrder ==
    [][ReportsActive => mn'.last = Head(hist.acc)]_vars

\* the first active entry in the order of the list mn->ents
FirstActiveInList ==
    ents[CHOOSE i \in 1..Len(ents) :
            ents[i].active /\ \A j \in 1..(i - 1) : ~ents[j].active].type

\* C6 amended: the entry reported is the first active one in list
\* (registration) order, whatever the order of acceptance; it is no
\* longer active afterwards and the other entries stay as they were.
ReportsInListOrder ==
    [][ReportsActive =>
        /\ mn'.last = FirstActiveInList
        /\ ActiveSet' = ActiveSet \ {FirstActiveInList}]_vars

\* two entries were active, the later one in the list accepted first,
\* and next_change() has reported the earlier one in the list
ListOrderWitness ==
    /\ call.op = NextChangeOp /\ call.rc = 0
    /\ Len(ents) = 2 /\ mn.last = ents[1].type
    /\ ents[2].active /\ hist.acc = <<ents[2].type>>

NextFsUnsupported ==
    [][(/\ mn.last \in {"kernel", "userspace"}
        /\ EventNextFs("fs")) =>
        /\ call'.rc = 0 - ENOTSUP
        /\ UNCHANGED <<mn, ents, freed, pc, fdtab, interest, rdl, pending,
                       hist>>]_vars

NextFsUnsupportedWitness ==
    /\ call.op = "mnt_monitor_event_next_fs" /\ call.rc = 0 - ENOTSUP
    /\ mn.last \in {"kernel", "userspace"}

\* ------------------------------------------------------------------- C4
\* the loop is blocked in epoll_wait(-1) and no registered descriptor is
\* on the ready list: it goes on only when a further change arrives
LoopBlocked == ~freed /\ pc = "wait" /\ rdl = <<>>

\* C4: in the consumer loop every change on an enabled, registered entry
\* is eventually reported by a next_change() call for that entry: the
\* loop never comes to rest in its wait while it owes a report.
NoChangeStranded == LoopBlocked => hist.owed = {}

\* ------------------------------------------------------------------- C9
\* the count is 1 plus the retains minus the releases, and the monitor
\* is gone exactly when the releases outnumber the retains
RefcountCounts ==
    /\ freed <=> hist.releases = hist.retains + 1
    /\ ~freed => mn.refcount = 1 + hist.retains - hist.releases

\* C9: the monitor is created with reference count 1; with n retains it
\* is destroyed by the (n+1)-th release exactly, and a release that is
\* not the last leaves entries, descriptors and registrations alone.
DestroyedByLastRelease ==
    /\ []RefcountCounts
    /\ [][(hist'.releases # hist.releases /\ ~freed')
            => UNCHANGED <<ents, fdtab, interest, rdl, pending>>]_vars

\* a monitor retained once is gone after its second release
LastReleaseWitness ==
    freed /\ hist.retains = MaxRef /\ hist.releases = MaxRef + 1 /\ mn.fd = NoFd

\* ------------------------------------------------------------------ C10
\* no descriptor of the monitor is open
AllClosed == \A n \in Fds : fdtab[n] \in {"closed", "stdin"}

\* C10: the release that destroys the monitor leaves no descriptor of
\* the monitor open and no entry in the list, has called op_free_data
\* once for every entry, and no descriptor has been closed twice.
FinalReleaseFreesAll ==
    [][freed' =>
        /\ AllClosed' /\ interest' = {}
        /\ ents' = <<>>
        /\ ~hist'.badclose
        /\ \A t \in Types :
             hist'.freedata[t] = IF monitor_get_entry(Cur, t, 0 - 1) # NULL
                                 THEN 1 ELSE 0]_vars

\* the monitor was destroyed while it had an entry of one type and none
\* of another
FinalReleaseWitness ==
    /\ freed /\ call.op = "mnt_unref_monitor"
    /\ \E t \in Types : hist.freedata[t] = 1
    /\ \E t \in Types : hist.freedata[t] = 0

\* ------------------------------------------------------------------ C11
\* C11: while the epoll descriptor exists, mnt_monitor_get_fd() returns
\* it and changes nothing: no registration, no drain, no flag.
GetFdIdempotent ==
    (Live /\ mn.fd >= 0) =>
        \A in \in GetFdFaults : mnt_monitor_get_fd(Cur, in) = RetS(Cur, mn.fd)

\* mnt_monitor_get_fd() was called on a monitor that had its descriptor,
\* an active entry and a notification on the ready list
GetFdAgainWitness ==
    /\ Live /\ call.op = "mnt_monitor_get_fd" /\ call.rc = mn.fd
    /\ ActiveSet # {} /\ rdl # <<>>

\* ------------------------------------------------------------------ C12
\* the state has no epoll instance and mn->fd is unset
NoEpoll(S) ==
    /\ S.mn.fd = NoFd
    /\ \A n \in Fds : S.fdtab[n] # "epoll"
    /\ S.interest = {}

\* C12: a mnt_monitor_get_fd() that fails has closed the epoll descriptor
\* it created and left mn->fd unset, so that the next call creates anew.
FailedGetFdLeavesUnset ==
    (Live /\ mn.fd < 0) =>
        \A in \in GetFdFaults :
            (/\ mnt_monitor_get_fd(Cur, in).pc = "idle"
             /\ mnt_monitor_get_fd(Cur, in).rc < 0)
            => NoEpoll(mnt_monitor_get_fd(Cur, in))

\* mnt_monitor_get_fd() failed after it had registered the first entry
FailedGetFdWitness ==
    /\ Live /\ call.op = "mnt_monitor_get_fd" /\ call.rc < 0
    /\ Len(ents) = 2 /\ ents[1].fd >= 0 /\ ents[2].enabled
    /\ NoEpoll(Cur)

\* the two steps of registering the entry ptr on an existing epoll
\* instance: the driver's op_get_fd, then EPOLL_CTL_ADD of its descriptor
DriverFd(S, ptr, in) == op_get_fd(S, ptr, Fails(in, "op_get_fd", ptr))

AddErrno(S, ptr, in) ==
    EpollCtlAdd(DriverFd(S, ptr, in), DriverFd(S, ptr, in).rc,
                Ent(S, ptr).events, ptr, Fails(in, "epoll_ctl", ptr)).rc

AddFails(S, ptr, in) ==
    DriverFd(S, ptr, in).rc < 0 \/ AddErrno(S, ptr, in) # 0

AddRefused(S, ptr, in) ==
    DriverFd(S, ptr, in).rc < 0 \/ AddErrno(S, ptr, in) \notin {0, EEXIST}

\* the fault in strikes a mnt_monitor_get_fd that has to build the epoll
\* instance: its entry is enabled and is opened or added during the call
StrikesGetFd(S, in) ==
    \/ in.kind = "epoll_create1"
    \/ /\ EntIdx(S, in.at) # 0
       /\ Ent(S, in.at).enabled
       /\ \/ in.kind = "op_get_fd" /\ Ent(S, in.at).fd < 0
          \/ in.kind = "epoll_ctl"

Returned(R) == R.pc = "idle"

\* C13 as stated: whenever the driver's op_get_fd fails or EPOLL_CTL_ADD
\* fails while an entry is registered, monitor_modify_epoll returns a
\* negative value.
AnyAddFailureReturned ==
    (Live /\ mn.fd >= 0) =>
        \A t \in Types : \A in \in RegFaults :
            (/\ EntIdx(Cur, t) # 0
             /\ AddFails(Cur, t, in)
             /\ Returned(monitor_modify_epoll(Cur, t, TRUE, in)))
            => monitor_modify_epoll(Cur, t, TRUE, in).rc < 0

\* C13: a registration that fails is never reported as success: when
\* the driver's op_get_fd fails, or EPOLL_CTL_ADD fails for another reason
\* than EEXIST (the descriptor is on the interest list already),
\* monitor_modify_epoll returns a negative value, and a
\* mnt_monitor_get_fd or mnt_monitor_wait that has to build the epoll
\* instance and meets such a failure returns a negative value.
RegistrationFailureReturned ==
    /\ (Live /\ mn.fd >= 0) =>
          \A t \in Types : \A in \in RegFaults :
              (/\ EntIdx(Cur, t) # 0
               /\ AddRefused(Cur, t, in)
               /\ Returned(monitor_modify_epoll(Cur, t, TRUE, in)))
              => monitor_modify_epoll(Cur, t, TRUE, in).rc < 0
    /\ (Live /\ mn.fd < 0) =>
          \A in \in GetFdFaults :
              StrikesGetFd(Cur, in) =>
                  /\ Returned(mnt_monitor_get_fd(Cur, in))
                        => mnt_monitor_get_fd(Cur, in).rc < 0
                  /\ \A timeout \in {0 - 1, 0} :
                        Returned(mnt_monitor_wait(Cur, timeout, in))
                        => mnt_monitor_wait(Cur, timeout, in).rc < 0

\* the registration procedure has just reported a refused EPOLL_CTL_ADD
RegistrationFailureWitness ==
    /\ Live /\ call.op = "enable" /\ call.rc = 0 - ENOSPC
    /\ mn.fd >= 0
    /\ \E i \in 1..Len(ents) : ents[i].enabled /\ ents[i].fd >= 0
                                 /\ ~Registered(Cur, ents[i].fd)

\* the entry ptr is not on the interest list of the epoll instance
Unregistered(S, ptr) ==
    Ent(S, ptr).fd < 0 \/ ~Registered(S, Ent(S, ptr).fd)

\* C14: with an epoll instance in place, disabling an entry that is not
\* registered with it returns 0 and leaves the entry with enabled and
\* active both false.
DisableUnregisteredSucceeds ==
    (Live /\ mn.fd >= 0) =>
        \A t \in Types :
            (EntIdx(Cur, t) # 0 /\ Unregistered(Cur, t)) =>
                /\ monitor_modify_epoll(Cur, t, FALSE, NoFault).rc = 0
                /\ ~Ent(monitor_modify_epoll(Cur, t, FALSE, NoFault), t).enabled
                /\ ~Ent(monitor_modify_epoll(Cur, t, FALSE, NoFault), t).active

\* every disable ends with both flags of the entry false, whatever it
\* returns
DisableClearsFlags ==
    Live =>
        \A t \in Types :
            EntIdx(Cur, t) # 0 =>
                /\ ~Ent(monitor_modify_epoll(Cur, t, FALSE, NoFault), t).enabled
                /\ ~Ent(monitor_modify_epoll(Cur, t, FALSE, NoFault), t).active

\* what mnt_monitor_wait returns (R) for what its read_epoll_events met,
\* G being the state in which the epoll instance is waited on:
\* 1 with an accepted event, 0 with a wait that expired, < 0 with a
\* failed epoll_wait or op_process_event, and nothing else
WaitClassified(G, R, timeout, in) ==
    /\ R.rc = 1 \/ R.rc = 0 \/ R.rc < 0
    /\ R.rc = 1 =>
          /\ R.ev # NULL
          /\ Ent(R, R.ev).active
          /\ PollReady(G, Ent(G, R.ev).fd)
          /\ ~Fails(in, "op_process_event", R.ev)
          /\ R.ev = "fanotify" => Ent(R, R.ev).data # <<>>
    /\ R.rc = 0 =>
          /\ timeout = 0
          /\ R.ev = NULL
          /\ EpollWait(R).rc = 0
          /\ \A i \in 1..Len(R.ents) : R.ents[i].active => G.ents[i].active
    /\ R.rc < 0 =>
          /\ in.kind \in {"epoll_wait", "op_process_event"}
          /\ in.kind = "epoll_wait" => timeout # 0 /\ R.rc = 0 - EINTR
          /\ in.kind = "op_process_event" =>
                PollReady(G, Ent(G, in.at).fd) /\ R.rc = 0 - EIO
          /\ \A i \in 1..Len(R.ents) : R.ents[i].active => G.ents[i].active
    /\ (EpollWait(G).rc = 0 /\ timeout = 0) => R.rc = 0
    /\ (EpollWait(G).rc = 0 /\ Fails(in, "epoll_wait", "") /\ timeout # 0)
          => R.rc = 0 - EINTR
    /\ (EpollWait(G).rc = 1 /\ Fails(in, "op_process_event", EpollWait(G).ev))
          => R.rc = 0 - EIO
    /\ (/\ EpollWait(G).rc = 1
        /\ EpollWait(G).ev \in {"kernel", "userspace"}
        /\ ~Fails(in, "op_process_event", EpollWait(G).ev))
          => R.rc = 1

\* mnt_monitor_wait as a whole: C.rc < 0 is a failed creation, returned
\* as it is and with nothing waited for
WaitCreated(C, R, timeout, in) ==
    IF ~Returned(C) THEN ~Returned(R)
    ELSE IF C.rc < 0 THEN R = C
    ELSE Returned(R) => WaitClassified(C, R, timeout, in)

\* C15: mnt_monitor_wait creates the epoll instance when there is none
\* and returns the creation's error without waiting; otherwise it
\* returns 1 exactly when an op_process_event accepted, 0 exactly when
\* epoll_wait expired with no event accepted, and a negative value
\* exactly when epoll_wait or op_process_event failed.  A blocked wait
\* that is resumed is classified the same way.
WaitReturnValue ==
    /\ Live =>
         \A timeout \in {0 - 1, 0} : \A in \in WaitFaults :
             WaitCreated(
                 IF mn.fd < 0 THEN mnt_monitor_get_fd(Cur, in) ELSE RetS(Cur, 0),
                 mnt_monitor_wait(Cur, timeout, in), timeout, in)
    /\ (~freed /\ pc = "wait") =>
         \A in \in ResumeFaults :
             (/\ rdl # <<>> \/ Fails(in, "epoll_wait", "")
              /\ Returned(mnt_monitor_wait_return(
                     read_epoll_events([Cur EXCEPT !.pc = "idle"], 0 - 1, in))))
                 => WaitClassified(
                        [Cur EXCEPT !.pc = "idle"],
                        mnt_monitor_wait_return(
                            read_epoll_events([Cur EXCEPT !.pc = "idle"], 0 - 1, in)),
                        0 - 1, in)

\* a wait that had to create the epoll instance has returned 1 for an
\* event of the attach/detach channel
WaitReturnWitness ==
    /\ Live /\ call.op = "mnt_monitor_wait" /\ call.rc = 1
    /\ EntIdx(Cur, "fanotify") # 0
    /\ Ent(Cur, "fanotify").active
    /\ Ent(Cur, "fanotify").data # <<>>

\* R differs from S in nothing but the active flag of the entry ptr,
\* mn->last and the return value: no descriptor, no registration, no
\* pending notification and no driver data has been touched
OnlyReported(S, R, ptr) ==
    /\ R.pc = S.pc
    /\ R.fdtab = S.fdtab
    /\ R.interest = S.interest
    /\ R.rdl = S.rdl
    /\ R.pending = S.pending
    /\ R.mn = [S.mn EXCEPT !.last = ptr]
    /\ R.ents = [S.ents EXCEPT ![EntIdx(S, ptr)].active = FALSE]

\* C16: when an entry is active, mnt_monitor_next_change returns 0 for
\* that entry (its path and type), clears its active flag and does
\* nothing else: no epoll_wait, no op_process_event, whatever system
\* call would fail.
ActiveReportedWithoutRead ==
    (Live /\ get_active(Cur) # NULL) =>
        \A in \in ResumeFaults :
            /\ mnt_monitor_next_change(Cur, in).rc = 0
            /\ mnt_monitor_next_change(Cur, in).ev = get_active(Cur)
            /\ Ent(Cur, get_active(Cur)).active
            /\ OnlyReported(Cur, mnt_monitor_next_change(Cur, in),
                            get_active(Cur))

\* mnt_monitor_next_change has reported one of two active entries while
\* the other one's notification is still on the ready list
ActiveReportedWitness ==
    /\ Live /\ call.op = "mnt_monitor_next_change" /\ call.rc = 0
    /\ mn.last # NULL /\ ~Ent(Cur, mn.last).active
    /\ ActiveSet # {}
    /\ rdl # <<>>

\* C17 as stated: at most one entry is active in every reachable state.
AtMostOneActive == Cardinality(ActiveSet) <= 1

\* C17: a mnt_monitor_wait makes at most one more entry active, and no
\* other call (mnt_monitor_next_change, mnt_monitor_event_cleanup,
\* enable, disable, mnt_monitor_get_fd, mnt_monitor_close_fd) leaves an
\* entry active that was not active before it; hence at most one entry
\* is active as long as mnt_monitor_wait is not called while an entry is
\* active.
ActiveGrowsByWaitOnly ==
    [][/\ Cardinality(ActiveSet') <= Cardinality(ActiveSet) + 1
       /\ call'.op # "mnt_monitor_wait" => ActiveSet' \subseteq ActiveSet
       /\ (ActiveSet = {} /\ call'.op = "mnt_monitor_wait")
             => Cardinality(ActiveSet') <= 1]_vars

\* a second mnt_monitor_wait has made a second entry active
SecondWaitWitness ==
    /\ Live /\ call.op = "mnt_monitor_wait" /\ call.rc = 1
    /\ Cardinality(ActiveSet) = 2

\* the longest run of reports one mnt_monitor_event_cleanup can meet:
\* every entry active and every entry on the ready list
MaxReports == 2 * MaxEnts + 1

\* the state after k calls of mnt_monitor_next_change in a row
RECURSIVE NextChangeTimes(_, _, _)
NextChangeTimes(S, in, k) ==
    IF k = 0 THEN RetS(S, 0)
    ELSE mnt_monitor_next_change(NextChangeTimes(S, in, k - 1), in)

\* C is what k calls of mnt_monitor_next_change leave, k - 1 of them
\* with a report and the last one with "no change" or an error
StopsAtFirstNonReport(S, C, in) ==
    \E k \in 1..MaxReports :
        /\ \A j \in 1..(k - 1) : NextChangeTimes(S, in, j).rc = 0
        /\ NextChangeTimes(S, in, k).rc # 0
        /\ C = RetS(NextChangeTimes(S, in, k),
                    IF NextChangeTimes(S, in, k).rc < 0
                    THEN NextChangeTimes(S, in, k).rc ELSE 0)

\* mnt_monitor_event_cleanup's result C for the state S
CleanedUp(S, C, in) ==
    /\ StopsAtFirstNonReport(S, C, in)
    /\ C.rc <= 0
    /\ C.rc < 0 => in.kind = "op_process_event" /\ C.rc = 0 - EIO
    /\ C.rc = 0 =>
          /\ \A i \in 1..Len(C.ents) : ~C.ents[i].active
          /\ C.mn.last = NULL
          /\ mnt_monitor_next_change(C, NoFault).rc = 1

\* C18: mnt_monitor_event_cleanup ends where a run of
\* mnt_monitor_next_change calls first answers "no change" (it returns
\* 0) or an error (it returns the error); when it returns 0 no entry is
\* active, mn->last is NULL and the next mnt_monitor_next_change answers
\* "no change".
CleanupUntilNoChange ==
    (Live /\ mn.fd >= 0) =>
        \A in \in ReadFaults :
            Returned(mnt_monitor_event_cleanup(Cur, in))
            => CleanedUp(Cur, mnt_monitor_event_cleanup(Cur, in), in)

\* mnt_monitor_event_cleanup has returned 0 with two entries registered,
\* and the next mnt_monitor_next_change has nothing to report
CleanupWitness ==
    /\ Live /\ call.op = "mnt_monitor_event_cleanup" /\ call.rc = 0
    /\ Cardinality(RegisteredSet) = 2
    /\ mn.last = NULL /\ ActiveSet = {}
    /\ mnt_monitor_next_change(Cur, NoFault).rc = 1

\* C19: mnt_monitor_next_change and mnt_monitor_event_cleanup always
\* return: they neither block in epoll_wait nor loop without end, also
\* when op_process_event answers "ignore" or fails.
NextChangeReturns ==
    (Live /\ mn.fd >= 0) =>
        \A in \in ReadFaults :
            /\ Returned(mnt_monitor_next_change(Cur, in))
            /\ Returned(mnt_monitor_event_cleanup(Cur, in))

\* the only notification pending is one the attach/detach channel's
\* op_process_event ignores: mnt_monitor_next_change reads it, is told
\* "ignore", waits again and returns "no change"
IgnoredThenNoChange ==
    /\ Live /\ mn.fd >= 0 /\ ActiveSet = {}
    /\ EntIdx(Cur, "fanotify") # 0
    /\ rdl = <<Ent(Cur, "fanotify").fd>>
    /\ pending["fanotify"] = <<"other">>
    /\ mnt_monitor_next_change(Cur, NoFault).rc = 1
    /\ mnt_monitor_next_change(Cur, NoFault).pending["fanotify"] = <<>>

\* the entry b is the entry a but for its flags and, when a had no
\* descriptor, its descriptor
SameEntry(a, b) ==
    /\ b.path = a.path
    /\ b.type = a.type
    /\ b.id = a.id
    /\ b.events = a.events
    /\ b.opers = a.opers
    /\ b.data = a.data
    /\ a.fd >= 0 => b.fd = a.fd

\* E is the state S after the entry ptr went through a cycle
CycleKeepsEntry(S, E, ptr) ==
    /\ Len(E.ents) = Len(S.ents)
    /\ SameEntry(Ent(S, ptr), Ent(E, ptr))
    /\ \A i \in 1..Len(S.ents) : i # EntIdx(S, ptr) => E.ents[i] = S.ents[i]
    /\ E.mn = S.mn

\* C20: disabling an entry and enabling it again leaves its path, type,
\* id, wanted events, operation table and private data as they were, and
\* every other entry and the monitor untouched, whether or not there is
\* an epoll instance and whatever fails during the re-enable; only the
\* entry's flags and its place on the interest list change.
DisableEnableKeepsEntry ==
    Live =>
        \A t \in Types : \A in \in RegFaults :
            EntIdx(Cur, t) # 0 =>
                /\ CycleKeepsEntry(Cur, mnt_monitor_enable(Cur, t, FALSE, NoFault), t)
                /\ CycleKeepsEntry(Cur,
                       mnt_monitor_enable(
                           mnt_monitor_enable(Cur, t, FALSE, NoFault),
                           t, TRUE, in), t)

\* the attach/detach entry has been disabled with records in its private
\* data; enabling it again puts it back on the interest list with the
\* same records
ReEnableWitness ==
    /\ Live /\ call.op = "disable" /\ call.rc = 0 /\ mn.fd >= 0
    /\ EntIdx(Cur, "fanotify") # 0
    /\ Ent(Cur, "fanotify").data # <<>>
    /\ ~Ent(Cur, "fanotify").enabled
    /\ "fanotify" \notin RegisteredSet
    /\ Ent(mnt_monitor_enable(Cur, "fanotify", TRUE, NoFault), "fanotify").data
          = Ent(Cur, "fanotify").data
    /\ Ent(mnt_monitor_enable(Cur, "fanotify", TRUE, NoFault), "fanotify").enabled
    /\ Registered(mnt_monitor_enable(Cur, "fanotify", TRUE, NoFault),
                  Ent(Cur, "fanotify").fd)

\* what one mnt_monitor_next_change leaves in mn->last: the entry it
\* reported, its active flag cleared, when it returned 0, and NULL
\* when it returned "no change" or an error
LastAfter(R) ==
    /\ R.rc = 0 => /\ R.mn.last = R.ev
                   /\ R.mn.last # NULL
                   /\ ~Ent(R, R.mn.last).active
    /\ R.rc # 0 => R.mn.last = NULL

\* C21: mn->last is set by a mnt_monitor_next_change that returns 0, to
\* the entry it reported, and is NULL after every mnt_monitor_next_change
\* that returned "no change" or an error.
LastSetBySuccessOnly ==
    Live =>
        \A in \in ReadFaults :
            Returned(mnt_monitor_next_change(Cur, in))
            => LastAfter(mnt_monitor_next_change(Cur, in))

\* the same with an epoll instance in place, and no other call writes
\* mn->last
LastSetBySuccessWithEpoll ==
    (Live /\ mn.fd >= 0) =>
        \A in \in ReadFaults :
            Returned(mnt_monitor_next_change(Cur, in))
            => LastAfter(mnt_monitor_next_change(Cur, in))

LastWrittenByNextChangeOnly ==
    [][(mn'.last # mn.last /\ ~freed')
          => call'.op \in {"mnt_monitor_next_change",
                           "mnt_monitor_event_cleanup"}]_vars

\* ------------------------------------------------ the public entry points
\* A public function is handed the monitor pointer by its caller; mnp is
\* that argument, "mn" for the monitor or NULL.  Each operator is the
\* function's test of the pointer, followed by the function.
mnt_ref_monitor_call(mnp, S) ==
    IF mnp = NULL THEN S ELSE mnt_ref_monitor(S)

mnt_unref_monitor_call(mnp, S) ==
    IF mnp = NULL THEN S ELSE mnt_unref_monitor(S)

\* variant: the pointer is not tested
mnt_monitor_close_fd_call_untested(mnp, S) == mnt_monitor_close_fd(S)

mnt_monitor_close_fd_call(mnp, S) ==
    IF mnp = NULL THEN RetS(S, 0 - EINVAL) ELSE mnt_monitor_close_fd(S)

mnt_monitor_get_fd_call(mnp, S, in) ==
    IF mnp = NULL THEN RetS(S, 0 - EINVAL) ELSE mnt_monitor_get_fd(S, in)

mnt_monitor_wait_call(mnp, S, timeout, in) ==
    IF mnp = NULL THEN RetS(S, 0 - EINVAL)
    ELSE mnt_monitor_wait(S, timeout, in)

mnt_monitor_next_change_call(mnp, S, in) ==
    IF mnp = NULL THEN RetS(S, 0 - EINVAL)
    ELSE mnt_monitor_next_change(S, in)

mnt_monitor_event_cleanup_call(mnp, S, in) ==
    IF mnp = NULL THEN RetS(S, 0 - EINVAL)
    ELSE mnt_monitor_event_cleanup(S, in)

mnt_monitor_event_next_fs_call(mnp, S, fs) ==
    IF mnp = NULL THEN RetS(S, 0 - EINVAL)
    ELSE mnt_monitor_event_next_fs(S, fs)

mnt_monitor_enable_call(mnp, S, type, enable, in) ==
    IF mnp = NULL THEN RetS(S, 0 - EINVAL)
    ELSE mnt_monitor_enable(S, type, enable, in)

PublicOps ==
    {"mnt_ref_monitor", "mnt_unref_monitor", "mnt_monitor_close_fd",
     "mnt_monitor_get_fd", "mnt_monitor_wait", "mnt_monitor_next_change",
     "mnt_monitor_event_cleanup", "mnt_monitor_event_next_fs",
     "enable", "disable"}

\* the call op(mnp, ...) made in the state S
PublicCall(op, mnp, S, t, fs, timeout) ==
    CASE op = "mnt_ref_monitor" -> RetS(mnt_ref_monitor_call(mnp, S), 0)
      [] op = "mnt_unref_monitor" -> RetS(mnt_unref_monitor_call(mnp, S), 0)
      [] op = "mnt_monitor_close_fd" -> mnt_monitor_close_fd_call(mnp, S)
      [] op = "mnt_monitor_get_fd" -> mnt_monitor_get_fd_call(mnp, S, NoFault)
      [] op = "mnt_monitor_wait" ->
            mnt_monitor_wait_call(mnp, S, timeout, NoFault)
      [] op = "mnt_monitor_next_change" ->
            mnt_monitor_next_change_call(mnp, S, NoFault)
      [] op = "mnt_monitor_event_cleanup" ->
            mnt_monitor_event_cleanup_call(mnp, S, NoFault)
      [] op = "mnt_monitor_event_next_fs" ->
            mnt_monitor_event_next_fs_call(mnp, S, fs)
      [] op = "enable" -> mnt_monitor_enable_call(mnp, S, t, TRUE, NoFault)
      [] op = "disable" -> mnt_monitor_enable_call(mnp, S, t, FALSE, NoFault)

\* the name under which a call with a NULL monitor is recorded
NullOp(op) == op \o "(NULL)"

\* a caller hands a NULL monitor to a public function while it holds the
\* monitor
NullCall(op, t, fs, timeout) ==
    /\ Live
    /\ Commit(PublicCall(op, NULL, Cur, t, fs, timeout), NullOp(op))

\* the calls of a caller that makes no system call fail, NULL monitors
\* included
NextNull ==
    \/ \E t \in Types, enable \in BOOLEAN : Enable(t, enable, NoFault)
    \/ GetFd(NoFault)
    \/ Wait(0, NoFault)
    \/ NextChange(NoFault)
    \/ \E t \in Types : \E rec \in RecordsOf(t) : ExtChange(t, rec)
    \/ \E op \in PublicOps, t \in Types, fs \in {"fs", NULL},
          timeout \in {0 - 1, 0} : NullCall(op, t, fs, timeout)

SpecNull == Init /\ [][NextNull]_vars

\* what a call with a NULL monitor returns: nothing for the two void
\* functions (recorded as 0), -EINVAL for the others
NullRc(op) ==
    IF op \in {"mnt_ref_monitor", "mnt_unref_monitor"} THEN 0 ELSE 0 - EINVAL

\* C22: a public function that is handed a NULL monitor returns -EINVAL
\* (mnt_ref_monitor and mnt_unref_monitor return nothing), and
\* mnt_monitor_event_next_fs with a NULL fs returns -EINVAL; none of
\* these calls changes the monitor, an entry, a descriptor or a pending
\* notification.
NullArgumentRejected ==
    Live =>
        /\ \A op \in PublicOps, t \in Types, fs \in {"fs", NULL},
              timeout \in {0 - 1, 0} :
              PublicCall(op, NULL, Cur, t, fs, timeout) = RetS(Cur, NullRc(op))
        /\ mnt_monitor_event_next_fs_call("mn", Cur, NULL)
              = RetS(Cur, 0 - EINVAL)

\* mnt_monitor_close_fd(NULL) has returned -EINVAL while the monitor has
\* its epoll instance, a registered entry and a reported event
NullArgumentWitness ==
    /\ Live /\ call.op = NullOp("mnt_monitor_close_fd")
    /\ call.rc = 0 - EINVAL
    /\ mn.fd >= 0 /\ RegisteredSet # {} /\ mn.last # NULL

\* ------------------------------------------- the records of one event
\* The attach/detach channel with records that can be told apart: the
\* group descriptor queues up to MaxRecords records before it is read.
MaxRecords == 2

DetailRecords == {"mnt1", "mnt2", "other"}

DetailChange(rec) ==
    /\ ~freed /\ pc = "idle"
    /\ FdOfObj("fanotify") # NoFd
    /\ Len(pending["fanotify"]) < MaxRecords
    /\ \A k \in 1..Len(pending["fanotify"]) : pending["fanotify"][k] # rec
    /\ pending' = [pending EXCEPT !["fanotify"] = Append(@, rec)]
    /\ rdl' = IF /\ Registered(Cur, FdOfObj("fanotify"))
                 /\ RemoveFd(rdl, FdOfObj("fanotify")) = rdl
              THEN Append(rdl, FdOfObj("fanotify")) ELSE rdl
    /\ call' = [op |-> "change", rc |-> 0]
    /\ UNCHANGED <<mn, ents, freed, pc, fdtab, interest, hist, utils>>

NextDetail ==
    \/ \E enable \in BOOLEAN : Enable("fanotify", enable, NoFault)
    \/ GetFd(NoFault)
    \/ Wait(0, NoFault)
    \/ NextChange(NoFault)
    \/ EventNextFs("fs")
    \/ \E rec \in DetailRecords : DetailChange(rec)

SpecDetail == Init /\ [][NextDetail]_vars

\* while (mnt_monitor_event_next_fs(mn, fs) == 0) ...: out collects the
\* records handed out, n bounds the calls
RECURSIVE NextFsLoop(_, _, _)
NextFsLoopNext(S, R, out, n) ==
    IF R.rc # 0 THEN [st |-> R, out |-> out, ended |-> TRUE]
    ELSE IF n = 0 THEN [st |-> R, out |-> out, ended |-> FALSE]
    ELSE NextFsLoop(R, Append(out, Head(Ent(S, S.mn.last).data)), n - 1)

NextFsLoop(S, out, n) ==
    NextFsLoopNext(S, mnt_monitor_event_next_fs(S, "fs"), out, n)

\* the records of the event that a mnt_monitor_next_change in the state
\* S reports for the attach/detach entry: those its op_process_event
\* takes from the queue, or, when the entry is active already, those the
\* accepting op_process_event left
EventRecords(S) ==
    IF Ent(S, "fanotify").active THEN Ent(S, "fanotify").data
    ELSE SelectSeq(S.pending["fanotify"], RealRecord)

\* L is the outcome of the loop after the report R made in the state S
DetailsYielded(S, R, L) ==
    /\ L.ended
    /\ L.st.rc = 1
    /\ L.out = EventRecords(S)
    /\ L.out # <<>>
    /\ L.st.pending = R.pending
    /\ Ent(L.st, "fanotify").data = <<>>
    /\ L.st.mn = R.mn

\* C23: after a mnt_monitor_next_change that reported the attach/detach
\* entry, the loop of mnt_monitor_event_next_fs hands out the records of
\* that event in order, one per call, and then returns 1; it hands out
\* no record left over from an earlier event and none that is still
\* queued on the descriptor.
DetailsOfReportedEvent ==
    (/\ Live /\ mn.fd >= 0 /\ EntIdx(Cur, "fanotify") # 0
     /\ mnt_monitor_next_change(Cur, NoFault).rc = 0
     /\ mnt_monitor_next_change(Cur, NoFault).mn.last = "fanotify")
        => DetailsYielded(Cur, mnt_monitor_next_change(Cur, NoFault),
                          NextFsLoop(mnt_monitor_next_change(Cur, NoFault),
                                     <<>>, MaxRecords))

\* the second mnt_monitor_event_next_fs after a report has returned 1,
\* the first one having handed out the event's record, and a record of a
\* later event is queued
DetailsWitness ==
    /\ Live /\ call.op = "mnt_monitor_event_next_fs" /\ call.rc = 1
    /\ mn.last = "fanotify"
    /\ Ent(Cur, "fanotify").data = <<>>
    /\ pending["fanotify"] # <<>>
    /\ RealRecord(pending["fanotify"][1])

\* the same for a report whose event is read by the reporting call
\* itself: the entry is not active when mnt_monitor_next_change is called
DetailsOfReadEvent ==
    (/\ Live /\ mn.fd >= 0 /\ EntIdx(Cur, "fanotify") # 0
     /\ ~Ent(Cur, "fanotify").active
     /\ mnt_monitor_next_change(Cur, NoFault).rc = 0
     /\ mnt_monitor_next_change(Cur, NoFault).mn.last = "fanotify")
        => DetailsYielded(Cur, mnt_monitor_next_change(Cur, NoFault),
                          NextFsLoop(mnt_monitor_next_change(Cur, NoFault),
                                     <<>>, MaxRecords))

\* the entries that are active in R and were not in S
NewlyActive(S, R) ==
    {R.ents[i].type : i \in {j \in 1..Len(R.ents) :
                                R.ents[j].active /\ ~S.ents[j].active}}

\* op_process_event of the entry ptr accepts what is queued on its
\* descriptor in the state S
WouldAccept(S, ptr) ==
    /\ PollReady(S, Ent(S, ptr).fd)
    /\ ptr = "fanotify" => \E k \in 1..Len(S.pending[ptr]) :
                               RealRecord(S.pending[ptr][k])

\* R is what read_epoll_events(mn, timeout, ...) leaves of the state S
ReadClassified(S, R, timeout, in) ==
    /\ Len(R.ents) = Len(S.ents)
    /\ R.rc = 0 =>
          /\ R.ev # NULL
          /\ Ent(R, R.ev).active
          /\ NewlyActive(S, R) \subseteq {R.ev}
          /\ \E r \in S.interest : r.ptr = R.ev /\ r.fd = Ent(S, R.ev).fd
          /\ WouldAccept(S, R.ev)
          /\ ~Fails(in, "op_process_event", R.ev)
    /\ R.rc # 0 => NewlyActive(S, R) = {}
    /\ R.rc < 0 =>
          \/ in.kind = "epoll_wait" /\ timeout # 0
          \/ in.kind = "op_process_event" /\ R.rc = 0 - EIO
    /\ (/\ S.rdl # <<>>
        /\ \A k \in 1..Len(S.rdl) : ~WouldAccept(S, Item(S, S.rdl[k]).ptr)
        /\ in = NoFault)
          => /\ R.rc = 1
             /\ NewlyActive(S, R) = {}
             /\ timeout = 0 => R.pc = "idle"
             /\ timeout < 0 => R.pc = "wait"

\* C24: read_epoll_events returns an entry and sets its active flag only
\* when the op_process_event of that entry accepted a notification on the
\* entry's own descriptor; after "ignore" no entry has been marked and
\* the loop waits again with the timeout it was given; an error of
\* op_process_event is returned and no entry has been marked.
ActiveOnlyOnAccept ==
    (~freed /\ pc \in {"idle", "wait"} /\ mn.fd >= 0) =>
        \A timeout \in {0 - 1, 0} : \A in \in ResumeFaults :
            ReadClassified([Cur EXCEPT !.pc = "idle"],
                           read_epoll_events([Cur EXCEPT !.pc = "idle"],
                                             timeout, in),
                           timeout, in)

\* the ready list holds a notification that the attach/detach entry
\* ignores and after it one that the other entry accepts:
\* read_epoll_events marks the other entry only
IgnoreThenAcceptWitness ==
    /\ Live /\ mn.fd >= 0 /\ ActiveSet = {}
    /\ EntIdx(Cur, "fanotify") # 0
    /\ Len(rdl) = 2 /\ rdl[1] = Ent(Cur, "fanotify").fd
    /\ pending["fanotify"] = <<"other">>
    /\ read_epoll_events(Cur, 0, NoFault).rc = 0
    /\ read_epoll_events(Cur, 0, NoFault).ev # "fanotify"
    /\ NewlyActive(Cur, read_epoll_events(Cur, 0, NoFault))
          = {read_epoll_events(Cur, 0, NoFault).ev}

\* C25: with an epoll instance in place, enabling an entry returns: the
\* drain loop that follows EPOLL_CTL_ADD ends, whatever is pending on the
\* descriptors of the other registered entries.
EnableTerminates ==
    (Live /\ mn.fd >= 0) =>
        \A t \in Types :
            (EntIdx(Cur, t) # 0 \/ Len(ents) < MaxEnts)
            => Returned(mnt_monitor_enable(Cur, t, TRUE, NoFault))

\* the types of the entries of S whose enabled flag is set
EnabledIn(S) ==
    {S.ents[i].type : i \in {j \in 1..Len(S.ents) : S.ents[j].enabled}}

\* R is the state S with the enabled flag of the entry ptr set to
\* enable, its active flag cleared and nothing else done
OnlyFlagged(S, R, ptr, enable) ==
    /\ Returned(R) /\ R.rc = 0
    /\ R.mn = S.mn
    /\ R.fdtab = S.fdtab
    /\ R.interest = S.interest
    /\ R.rdl = S.rdl
    /\ R.pending = S.pending
    /\ R.ents = [S.ents EXCEPT ![EntIdx(S, ptr)].enabled = enable,
                               ![EntIdx(S, ptr)].active = FALSE]

\* G is what a mnt_monitor_get_fd that succeeded made of the state R
RegistersEnabled(R, G) ==
    (Returned(G) /\ G.rc >= 0) =>
        /\ G.mn.fd = G.rc
        /\ {r.ptr : r \in G.interest} = EnabledIn(R)
        /\ EnabledIn(G) = EnabledIn(R)

\* C26: without an epoll instance monitor_modify_epoll returns 0, calls
\* neither op_get_fd nor epoll_ctl nor epoll_wait whatever would fail,
\* and only sets the entry's enabled flag as asked and clears its active
\* flag; a mnt_monitor_get_fd that follows and succeeds registers the
\* entries whose flag is set and no other.
FlagsOnlyWithoutEpoll ==
    (Live /\ mn.fd < 0) =>
        \A t \in Types, enable \in BOOLEAN, in \in RegFaults :
            EntIdx(Cur, t) # 0 =>
                /\ OnlyFlagged(Cur, monitor_modify_epoll(Cur, t, enable, in),
                               t, enable)
                /\ RegistersEnabled(
                       monitor_modify_epoll(Cur, t, enable, in),
                       mnt_monitor_get_fd(
                           monitor_modify_epoll(Cur, t, enable, in), NoFault))

\* one entry has been disabled and one is enabled before there is an
\* epoll instance; neither has a descriptor, and mnt_monitor_get_fd
\* registers the enabled one only
FlagsOnlyWitness ==
    /\ Live /\ mn.fd < 0 /\ call.op = "disable" /\ call.rc = 0
    /\ Len(ents) = 2
    /\ ents[1].fd < 0 /\ ents[2].fd < 0
    /\ ~ents[1].enabled /\ ents[2].enabled
    /\ {r.ptr : r \in mnt_monitor_get_fd(Cur, NoFault).interest}
          = {ents[2].type}

\* the descriptors that entries of S hold open
EntryFds(S) == {n \in Fds : S.fdtab[n] \in Types}

\* C27 as stated: mnt_monitor_close_fd closes no entry's descriptor.
CloseFdKeepsEntryFds ==
    Live =>
        /\ EntryFds(mnt_monitor_close_fd(Cur)) = EntryFds(Cur)
        /\ \A i \in 1..Len(ents) :
              mnt_monitor_close_fd(Cur).ents[i].fd = ents[i].fd

\* C27: mnt_monitor_close_fd takes every entry off the interest list,
\* has the driver close every entry's descriptor (op_close_fd) and then
\* closes the epoll descriptor; the entries themselves stay in the list,
\* with no descriptor, disabled when there was an epoll instance, and
\* are destroyed by mnt_unref_monitor only.
CloseFdClosesEntryFds ==
    Live =>
        /\ Returned(mnt_monitor_close_fd(Cur))
        /\ mnt_monitor_close_fd(Cur).rc = 0
        /\ EntryFds(mnt_monitor_close_fd(Cur)) = {}
        /\ mnt_monitor_close_fd(Cur).interest = {}
        /\ mnt_monitor_close_fd(Cur).mn.fd = NoFd
        /\ Len(mnt_monitor_close_fd(Cur).ents) = Len(ents)
        /\ \A i \in 1..Len(ents) :
              /\ mnt_monitor_close_fd(Cur).ents[i].fd = NoFd
              /\ mnt_monitor_close_fd(Cur).ents[i].type = ents[i].type
              /\ mn.fd >= 0 => ~mnt_monitor_close_fd(Cur).ents[i].enabled
              /\ ~mnt_monitor_close_fd(Cur).ents[i].active

\* two registered entries hold their descriptors; mnt_monitor_close_fd
\* closes both
CloseFdWitness ==
    /\ Live /\ mn.fd >= 0
    /\ Cardinality(RegisteredSet) = 2
    /\ Cardinality(EntryFds(Cur)) = 2
    /\ EntryFds(mnt_monitor_close_fd(Cur)) = {}
    /\ Len(mnt_monitor_close_fd(Cur).ents) = 2

\* G is what mnt_monitor_get_fd makes of C, the state S after
\* mnt_monitor_close_fd: the entries enabled in S are registered again
ReRegistered(S, C, G) ==
    /\ C.mn.fd = NoFd
    /\ (Returned(G) /\ G.rc >= 0) =>
          /\ {r.ptr : r \in G.interest} = EnabledIn(S)
          /\ EnabledIn(G) = EnabledIn(S)

\* C28 as stated: after mnt_monitor_close_fd on a monitor with an epoll
\* instance mn->fd is unset and the next mnt_monitor_get_fd registers
\* every entry that was enabled before the close.
CloseFdKeepsEnabled ==
    (Live /\ mn.fd >= 0) =>
        ReRegistered(Cur, mnt_monitor_close_fd(Cur),
                     mnt_monitor_get_fd(mnt_monitor_close_fd(Cur), NoFault))

\* G and W are what mnt_monitor_get_fd and mnt_monitor_wait(mn, 0) make
\* of C, the state after mnt_monitor_close_fd: a new epoll instance with
\* nothing on it
Reset(C, G, W) ==
    /\ C.mn.fd = NoFd
    /\ EnabledIn(C) = {}
    /\ Returned(G) /\ G.rc >= 0 /\ G.mn.fd = G.rc
    /\ G.fdtab[G.rc] = "epoll"
    /\ G.interest = {}
    /\ EnabledIn(G) = {}
    /\ Returned(W) /\ W.rc = 0
    /\ W.mn.fd >= 0 /\ W.interest = {}

\* C28: after mnt_monitor_close_fd on a monitor with an epoll instance
\* mn->fd is unset and every entry is disabled; the next
\* mnt_monitor_get_fd or mnt_monitor_wait builds a new epoll instance
\* with no entry registered on it, until entries are enabled again.
CloseFdDisablesAll ==
    (Live /\ mn.fd >= 0) =>
        Reset(mnt_monitor_close_fd(Cur),
              mnt_monitor_get_fd(mnt_monitor_close_fd(Cur), NoFault),
              mnt_monitor_wait(mnt_monitor_close_fd(Cur), 0, NoFault))

\* two enabled, registered entries; after mnt_monitor_close_fd the next
\* mnt_monitor_get_fd registers neither
CloseFdDisablesWitness ==
    /\ Live /\ mn.fd >= 0
    /\ Cardinality(EnabledSet) = 2
    /\ RegisteredSet = EnabledSet
    /\ mnt_monitor_get_fd(mnt_monitor_close_fd(Cur), NoFault).rc >= 0
    /\ mnt_monitor_get_fd(mnt_monitor_close_fd(Cur), NoFault).interest = {}

\* the calls of a caller that makes no system call fail, in a process
\* that may close its descriptor 0
NextZero ==
    \/ \E t \in Types, enable \in BOOLEAN : Enable(t, enable, NoFault)
    \/ GetFd(NoFault)
    \/ Wait(0, NoFault)
    \/ NextChange(NoFault)
    \/ \E t \in Types : \E rec \in RecordsOf(t) : ExtChange(t, rec)
    \/ CloseStdin

SpecZero == Init /\ [][NextZero]_vars

\* C29: an active entry is an enabled entry, in every reachable state.
ActiveIsEnabled ==
    \A i \in 1..Len(ents) : ents[i].active => ents[i].enabled

LastInList == mn.last = NULL \/ EntIdx(Cur, mn.last) # 0

DisableRemovesOpenDescriptor ==
    (Live /\ mn.fd >= 0) =>
        \A t \in Types :
            EntIdx(Cur, t) # 0 =>
                /\ Ent(Cur, t).fd >= 0 =>
                     ~Registered(monitor_modify_epoll(Cur, t, FALSE, NoFault),
                                 Ent(Cur, t).fd)
                /\ Ent(Cur, t).fd < 0 =>
                     /\ monitor_modify_epoll(Cur, t, FALSE, NoFault).rc = 0
                     /\ monitor_modify_epoll(Cur, t, FALSE, NoFault).interest
                            = interest

\* ------------------------------------------------------------------ C32
\* the registrations of descriptor fd on the interest list of S
RegistrationsOf(S, fd) == {r \in S.interest : r.fd = fd}

\* the entry ptr of S is on the interest list with its own descriptor
RegisteredEntry(S, ptr) ==
    /\ EntIdx(S, ptr) # 0
    /\ Ent(S, ptr).fd >= 0
    /\ Registered(S, Ent(S, ptr).fd)

\* R, the state the enable branch left, has one registration of the
\* entry's descriptor, tagged with the entry
OneRegistration(R, ptr) ==
    /\ Cardinality(RegistrationsOf(R, Ent(R, ptr).fd)) = 1
    /\ \A r \in RegistrationsOf(R, Ent(R, ptr).fd) : r.ptr = ptr

\* C32: the enable branch run for an entry whose descriptor is already
\* on the interest list returns 0 and leaves one registration of that
\* descriptor, tagged with the entry.
EnableRegisteredSucceeds ==
    (Live /\ mn.fd >= 0) =>
        \A t \in Types :
            RegisteredEntry(Cur, t) =>
                /\ Returned(monitor_modify_epoll(Cur, t, TRUE, NoFault))
                /\ monitor_modify_epoll(Cur, t, TRUE, NoFault).rc = 0
                /\ OneRegistration(monitor_modify_epoll(Cur, t, TRUE, NoFault), t)

\* whenever that enable returns, it returns 0 with the one registration
EnableRegisteredKeepsRegistration ==
    (Live /\ mn.fd >= 0) =>
        \A t \in Types :
            (/\ RegisteredEntry(Cur, t)
             /\ Returned(monitor_modify_epoll(Cur, t, TRUE, NoFault)))
            => /\ monitor_modify_epoll(Cur, t, TRUE, NoFault).rc = 0
               /\ OneRegistration(monitor_modify_epoll(Cur, t, TRUE, NoFault), t)
               /\ monitor_modify_epoll(Cur, t, TRUE, NoFault).interest = interest

\* ------------------------------------------------------------------ C33
\* mnt_monitor_get_fd hands the epoll descriptor to the application.  An
\* application that puts a descriptor of its own on that epoll instance,
\* here its standard input with ev.data.fd = 0, creates an item whose
\* data.ptr is NULL.
ForeignAdd(events) ==
    /\ Live
    /\ mn.fd >= 0
    /\ fdtab[0] = "stdin"
    /\ ~Registered(Cur, 0)
    /\ Commit(EpollCtlAdd(Cur, 0, events, NULL, FALSE), "epoll_ctl")

\* the calls of a caller that makes no system call fail and shares the
\* epoll instance with a descriptor of its own
NextForeign ==
    \/ \E t \in Types, enable \in BOOLEAN : Enable(t, enable, NoFault)
    \/ GetFd(NoFault)
    \/ \E timeout \in {0, 1000} : Wait(timeout, NoFault)
    \/ NextChange(NoFault)
    \/ \E t \in Types : \E rec \in RecordsOf(t) : ExtChange(t, rec)
    \/ \E events \in {{"EPOLLIN"}, {"EPOLLIN", "EPOLLET"}} : ForeignAdd(events)

SpecForeign == Init /\ [][NextForeign]_vars

\* the next epoll_wait on the epoll instance of S reports an item whose
\* data.ptr is NULL
UntaggedReady(S) ==
    S.mn.fd >= 0 /\ EpollWait(S).rc = 1 /\ EpollWait(S).ev = NULL

\* R is S but for the ready list, which the epoll_wait has consumed from:
\* no entry was touched and no op_process_event has read anything
OnlyWaited(S, R) ==
    /\ R.ents = S.ents
    /\ R.pending = S.pending
    /\ R.hist = S.hist
    /\ R.mn = S.mn
    /\ R.interest = S.interest

\* C33: when epoll_wait reports an item without an entry in data.ptr,
\* read_epoll_events returns -EINVAL at once, with no entry marked active
\* and no op_process_event call; mnt_monitor_wait returns that error, and
\* so does mnt_monitor_next_change when it reads the epoll instance.
UntaggedNotificationFails ==
    (Live /\ UntaggedReady(Cur)) =>
        /\ Returned(read_epoll_events(Cur, 0, NoFault))
        /\ read_epoll_events(Cur, 0, NoFault).rc = 0 - EINVAL
        /\ OnlyWaited(Cur, read_epoll_events(Cur, 0, NoFault))
        /\ \A timeout \in {0, 1000} :
              /\ mnt_monitor_wait(Cur, timeout, NoFault).rc = 0 - EINVAL
              /\ OnlyWaited(Cur, mnt_monitor_wait(Cur, timeout, NoFault))
        /\ get_active(Cur) = NULL =>
              /\ mnt_monitor_next_change(Cur, NoFault).rc = 0 - EINVAL
              /\ mnt_monitor_next_change(Cur, NoFault).ents = ents
              /\ mnt_monitor_next_change(Cur, NoFault).pending = pending

\* a wait has met the untagged item while an enabled entry had a
\* notification of its own behind it
UntaggedNotificationWitness ==
    /\ Live
    /\ UntaggedReady(Cur)
    /\ call.op = "mnt_monitor_wait"
    /\ call.rc = 0 - EINVAL
    /\ \E i \in 1..Len(ents) :
          ents[i].enabled /\ ents[i].fd >= 0
             /\ RemoveFd(rdl, ents[i].fd) # rdl

\* ------------------------------------------------------------------ C34
\* the enabled and the active flag of every entry of S, in list order
FlagsOf(S) ==
    [i \in 1..Len(S.ents) |->
        [type |-> S.ents[i].type, enabled |-> S.ents[i].enabled,
         active |-> S.ents[i].active]]

\* R has the flags and the interest list of S
SameFlagsAndInterest(S, R) ==
    FlagsOf(R) = FlagsOf(S) /\ R.interest = S.interest

\* C34 as stated: a mnt_monitor_wait that returns 0 and a
\* mnt_monitor_next_change that returns 1 leave the flags of every entry
\* and the interest list of the epoll instance as they were.
ExpiredWaitChangesNothing ==
    Live =>
        /\ \A timeout \in {0, 1000} :
              (/\ Returned(mnt_monitor_wait(Cur, timeout, NoFault))
               /\ mnt_monitor_wait(Cur, timeout, NoFault).rc = 0)
              => SameFlagsAndInterest(Cur, mnt_monitor_wait(Cur, timeout, NoFault))
        /\ (/\ Returned(mnt_monitor_next_change(Cur, NoFault))
            /\ mnt_monitor_next_change(Cur, NoFault).rc = 1)
           => SameFlagsAndInterest(Cur, mnt_monitor_next_change(Cur, NoFault))

\* C34: with the epoll instance in place, a mnt_monitor_wait that returns
\* 0 and a mnt_monitor_next_change that returns 1 leave the flags of
\* every entry and the interest list as they were; a mnt_monitor_wait
\* that has to create the epoll instance first and returns 0 leaves the
\* flags as they were and the enabled entries registered.
ExpiredWaitKeepsFlags ==
    Live =>
        /\ \A timeout \in {0, 1000} :
              (/\ Returned(mnt_monitor_wait(Cur, timeout, NoFault))
               /\ mnt_monitor_wait(Cur, timeout, NoFault).rc = 0)
              => /\ FlagsOf(mnt_monitor_wait(Cur, timeout, NoFault)) = FlagsOf(Cur)
                 /\ mn.fd >= 0 =>
                      mnt_monitor_wait(Cur, timeout, NoFault).interest = interest
                 /\ mn.fd < 0 =>
                      {r.ptr : r \in mnt_monitor_wait(Cur, timeout, NoFault).interest}
                          = EnabledIn(Cur)
        /\ (/\ Returned(mnt_monitor_next_change(Cur, NoFault))
            /\ mnt_monitor_next_change(Cur, NoFault).rc = 1)
           => SameFlagsAndInterest(Cur, mnt_monitor_next_change(Cur, NoFault))

\* a wait has expired while an entry was still marked active by an
\* earlier wait and another enabled entry had nothing to report
ExpiredWaitWitness ==
    /\ Live
    /\ mn.fd >= 0
    /\ call.op = "mnt_monitor_wait"
    /\ call.rc = 0
    /\ \E i \in 1..Len(ents) : ents[i].active
    /\ \E i \in 1..Len(ents) : ents[i].enabled /\ ~ents[i].active
    /\ mnt_monitor_wait(Cur, 0, NoFault).rc = 0

\* ------------------------------------------------------------------ C35
\* R is S with the return value rc: the call changed nothing
RejectedWith(S, R, rc) ==
    /\ Returned(R)
    /\ R.rc = rc
    /\ R.mn = S.mn
    /\ R.ents = S.ents
    /\ R.interest = S.interest
    /\ R.rdl = S.rdl
    /\ R.pending = S.pending

\* C35: on a monitor without an epoll instance (none built yet, or
\* closed by mnt_monitor_close_fd) mnt_monitor_next_change and
\* mnt_monitor_event_cleanup return -EINVAL, and mn->last and the flags
\* of every entry stay as they were.
NoEpollIsInvalidArgument ==
    (Live /\ mn.fd < 0) =>
        \A in \in ReadFaults :
            /\ RejectedWith(Cur, mnt_monitor_next_change(Cur, in), 0 - EINVAL)
            /\ RejectedWith(Cur, mnt_monitor_event_cleanup(Cur, in), 0 - EINVAL)

\* mnt_monitor_next_change has returned -EINVAL on a monitor whose epoll
\* instance was closed after a report, with entries in its list
NoEpollWitness ==
    /\ Live
    /\ mn.fd < 0
    /\ mn.last # NULL
    /\ ents # <<>>
    /\ call.op = "mnt_monitor_next_change"
    /\ call.rc = 0 - EINVAL

\* ------------------------------------------------------------------ C36
\* the variables of the monitor, which setpriv leaves alone
monitor == <<mn, ents, freed, pc, fdtab, interest, rdl, pending, call, hist>>

\* setpriv reads its command line: --landlock-access
ParseLandlockAccess(str) ==
    /\ setpriv.pc = "options"
    /\ setpriv' = parse_landlock_access(setpriv, str)
    /\ UNCHANGED <<monitor, zramctl>>

\* setpriv reads its command line: --landlock-rule
ParseLandlockRule(rights, path, opened) ==
    /\ setpriv.pc = "options"
    /\ Len(setpriv.rules) < MaxRules
    /\ setpriv' = parse_landlock_rule(setpriv, rights, path, opened)
    /\ UNCHANGED <<monitor, zramctl>>

\* the options are read and setpriv calls do_landlock
DoLandlock ==
    /\ setpriv.pc = "options"
    /\ setpriv' = do_landlock_entry(setpriv)
    /\ UNCHANGED <<monitor, zramctl>>

CreateRuleset(ok) ==
    /\ setpriv.pc = "create"
    /\ setpriv' = do_landlock_create(setpriv, ok)
    /\ UNCHANGED <<monitor, zramctl>>

AddRule(ok) ==
    /\ setpriv.pc = "rule"
    /\ setpriv' = do_landlock_add_rule(setpriv, ok)
    /\ UNCHANGED <<monitor, zramctl>>

NoNewPrivs(ok) ==
    /\ setpriv.pc = "prctl"
    /\ setpriv' = do_landlock_prctl(setpriv, ok)
    /\ UNCHANGED <<monitor, zramctl>>

RestrictSelf(ok) ==
    /\ setpriv.pc = "restrict"
    /\ setpriv' = do_landlock_restrict(setpriv, ok)
    /\ UNCHANGED <<monitor, zramctl>>

NextLandlock ==
    \/ \E str \in AccessArgs : ParseLandlockAccess(str)
    \/ \E rights \in {"", "execute", "read-file"}, path \in RulePaths,
          opened \in BOOLEAN : ParseLandlockRule(rights, path, opened)
    \/ DoLandlock
    \/ \E ok \in BOOLEAN : CreateRuleset(ok)
    \/ \E ok \in BOOLEAN : AddRule(ok)
    \/ \E ok \in BOOLEAN : NoNewPrivs(ok)
    \/ \E ok \in BOOLEAN : RestrictSelf(ok)

SpecLandlock == Init /\ [][NextLandlock]_vars

\* the system calls of a do_landlock that meets no failure, for the
\* rules of L
LandlockCalls(L) ==
    <<"landlock_create_ruleset">>
        \o [i \in 1..Len(L.rules) |-> "landlock_add_rule"]
        \o <<"prctl", "landlock_restrict_self">>

\* C36: do_landlock makes no system call when opts->access_fs is empty,
\* whatever rules were given.  Otherwise its calls are, in this order,
\* landlock_create_ruleset, landlock_add_rule for every rule of the list,
\* prctl(PR_SET_NO_NEW_PRIVS) and landlock_restrict_self; the first call
\* that fails is the last call and the program exits with status 127.
LandlockOrder ==
    /\ setpriv.access_fs = {} =>
          /\ setpriv.calls = <<>>
          /\ ~setpriv.nnp /\ ~setpriv.restricted
          /\ setpriv.status # SETPRIV_EXIT_PRIVERR
          /\ setpriv.pc \in {"options", "returned", "exited"}
    /\ Len(setpriv.calls) <= Len(LandlockCalls(setpriv))
    /\ \A i \in 1..Len(setpriv.calls) :
          /\ setpriv.calls[i].call = LandlockCalls(setpriv)[i]
          /\ setpriv.calls[i].call = "landlock_add_rule" =>
                setpriv.calls[i].arg = setpriv.rules[i - 1]
          /\ i < Len(setpriv.calls) => setpriv.calls[i].ok
    /\ setpriv.status = SETPRIV_EXIT_PRIVERR <=>
          (setpriv.calls # <<>> /\ ~setpriv.calls[Len(setpriv.calls)].ok)
    /\ setpriv.status = SETPRIV_EXIT_PRIVERR => setpriv.pc = "exited"
    /\ setpriv.nnp => Len(setpriv.calls) >= Len(setpriv.rules) + 2
    /\ setpriv.restricted =>
          /\ setpriv.nnp
          /\ Len(setpriv.calls) = Len(LandlockCalls(setpriv))
          /\ setpriv.calls[Len(setpriv.calls)].ok
    /\ (setpriv.pc = "returned" /\ setpriv.access_fs # {}) =>
          setpriv.restricted

\* do_landlock has ended the program at the second of two rules: no
\* prctl and no landlock_restrict_self was made
LandlockFailureWitness ==
    /\ setpriv.pc = "exited"
    /\ setpriv.status = SETPRIV_EXIT_PRIVERR
    /\ Len(setpriv.rules) = MaxRules
    /\ Len(setpriv.calls) = 3
    /\ ~setpriv.calls[3].ok
    /\ ~setpriv.nnp /\ ~setpriv.restricted

\* ------------------------------------------------------------------ C37
\* the command lines: sequences of at most MaxDevs device names
ZramArgv == UNION {[1..n -> ZramDevs] : n \in 0..MaxDevs}

ZramMain(action, find, argv, sysfs, free) ==
    /\ zramctl.pc = "options"
    /\ action = "reset" => ~find
    /\ free # "" => find /\ action = "create"
    /\ zramctl' = zramctl_main(zramctl, action, find, argv, sysfs, free)
    /\ UNCHANGED <<monitor, setpriv>>

ZramExist ==
    /\ zramctl.pc = "exist"
    /\ zramctl' = zram_exist(zramctl)
    /\ UNCHANGED <<monitor, setpriv>>

ZramWaitInitialized(r) ==
    /\ zramctl.pc = "wait"
    /\ zramctl' = zram_wait_initialized(zramctl, r)
    /\ UNCHANGED <<monitor, setpriv>>

ZramLock(opened, flocked) ==
    /\ zramctl.pc = "lock"
    /\ zramctl' = zram_lock(zramctl, opened, flocked)
    /\ UNCHANGED <<monitor, setpriv>>

ZramUnlock ==
    /\ zramctl.pc = "unlock"
    /\ zramctl' = zram_unlock(zramctl)
    /\ UNCHANGED <<monitor, setpriv>>

ZramReset(written) ==
    /\ zramctl.pc = "reset"
    /\ zramctl' = zram_set_reset(zramctl, written)
    /\ UNCHANGED <<monitor, setpriv>>

ZramResetNext(removed) ==
    /\ zramctl.pc = "remove"
    /\ zramctl' = zram_reset_next(zramctl, removed)
    /\ UNCHANGED <<monitor, setpriv>>

ZramCreateSetup(written) ==
    /\ zramctl.pc = "disksize"
    /\ zramctl' = zram_create_setup(zramctl, written)
    /\ UNCHANGED <<monitor, setpriv>>

NextZram ==
    \/ \E action \in {"reset", "create"}, find \in BOOLEAN, argv \in ZramArgv,
          sysfs \in SUBSET ZramDevs, free \in ZramDevs \cup {""} :
          ZramMain(action, find, argv, sysfs, free)
    \/ ZramExist
    \/ \E r \in {0, 0 - EINVAL} : ZramWaitInitialized(r)
    \/ \E opened \in BOOLEAN, flocked \in BOOLEAN : ZramLock(opened, flocked)
    \/ ZramUnlock
    \/ \E written \in BOOLEAN : ZramReset(written)
    \/ \E removed \in BOOLEAN : ZramResetNext(removed)
    \/ \E written \in BOOLEAN : ZramCreateSetup(written)

SpecZram == Init /\ [][NextZram]_vars

\* C37: in A_RESET and A_CREATE the "reset" attribute of a device is
\* written only after zram_lock has taken the lock on the device node
\* and zram_unlock has released it, with lock_fd unset at the write; for
\* a device that does not exist, whose zram_wait_initialized failed or
\* whose lock could not be taken, "reset" is not written.
ResetAfterLockReleased ==
    \A i \in 1..Len(zramctl.steps) :
        zramctl.steps[i].step = "reset" =>
            /\ zramctl.steps[i].lock_fd < 0
            /\ i >= 3
            /\ zramctl.steps[i - 1].step = "zram_unlock"
            /\ zramctl.steps[i - 1].optind = zramctl.steps[i].optind
            /\ zramctl.steps[i - 2].step = "zram_lock"
            /\ zramctl.steps[i - 2].ok
            /\ zramctl.steps[i - 2].lock_fd >= 0
            /\ zramctl.steps[i - 2].optind = zramctl.steps[i].optind
            /\ \A j \in 1..Len(zramctl.steps) :
                  (/\ zramctl.steps[j].optind = zramctl.steps[i].optind
                   /\ zramctl.steps[j].step \in
                         {"zram_exist", "zram_wait_initialized", "zram_lock"})
                  => zramctl.steps[j].ok

\* A_RESET of two devices: the lock of the first could not be taken and
\* nothing was written for it, the second has been reset
ResetSecondWitness ==
    /\ zramctl.action = "reset"
    /\ Len(zramctl.argv) = 2
    /\ \E j \in 1..Len(zramctl.steps) :
          /\ zramctl.steps[j].optind = 1
          /\ zramctl.steps[j].step = "zram_lock"
          /\ ~zramctl.steps[j].ok
    /\ \E i \in 1..Len(zramctl.steps) :
          /\ zramctl.steps[i].optind = 2
          /\ zramctl.steps[i].step = "reset"
          /\ zramctl.steps[i].ok
    /\ zramctl.rc = 1

====
